---------------------------- MODULE Spec2Model ----------------------------
(***************************************************************************)
(* PACIFIC lesson backend: the MoSCoW priority normalizer, the cache key   *)
(* deriver, the DynamoDB lesson cache and the lesson orchestrator          *)
(* (pacific-generate-lesson/src).                                          *)
(*                                                                         *)
(* Python values are modelled as tagged records [ty, val]:                 *)
(*   ty = "none"  None                      val = <<>>                     *)
(*   ty = "num"   a non-zero number         val = <<>>                     *)
(*   ty = "str"   a str                     val = its text                 *)
(*   ty = "list"  a list                    val = the sequence of items    *)
(*   ty = "dict"  a dict                    val = a function on its keys   *)
(*   ty = "true", "false"  the two bool     val = <<>>                     *)
(*   ty = "int"   an int                    val = <<the int>>              *)
(*   ty = "time"  a datetime                val = <<hours since start>>    *)
(* The text of a str is a sequence of tokens: " " is one whitespace        *)
(* character, every other token is a maximal run of non-whitespace         *)
(* characters.  A text no code splits or strips (an error message, a       *)
(* header value) may be kept as a single token.                            *)
(*   ty = "jsontext"  a str holding JSON    val = the value it parses to   *)
(* The handler and the extract functions have harnesses of their own       *)
(* (SpecHandler, SpecExtract); SpecLive is Spec with the progress the      *)
(* code guarantees.  SpecRetry applies retry_lesson_generation and the     *)
(* generation step of process_lesson_request; SpecFingerprint compares the *)
(* fingerprints and the prompts of two process_lesson_request calls.       *)
(***************************************************************************)
EXTENDS Integers, Sequences, FiniteSets, TLC

VARIABLES
    call,       \* the function applied by a harness, with its arguments
    ret,        \* the value it returned (NoRet before the call)
    store,      \* the pacific-lessons table: lessonHash -> item
    now,        \* datetime.utcnow(), in hours
    sweep,      \* the clear_expired_lessons call in progress
    procs       \* the process_lesson_request calls in progress

vars == <<call, ret, store, now, sweep, procs>>
harness == <<call, ret>>
system == <<store, now, sweep, procs>>

-----------------------------------------------------------------------------
(* Python values *)

PyNone == [ty |-> "none", val |-> <<>>]
PyNum == [ty |-> "num", val |-> <<>>]
PyStr(s) == [ty |-> "str", val |-> s]
PyList(l) == [ty |-> "list", val |-> l]
PyDict(d) == [ty |-> "dict", val |-> d]
EmptyDict == [k \in {} |-> PyNone]

\* dict.get(key, default)
Get(d, key, default) == IF key \in DOMAIN d THEN d[key] ELSE default

\* isinstance(v, str), isinstance(v, list), isinstance(v, dict)
IsStr(v) == v.ty = "str"
IsList(v) == v.ty = "list"
IsDict(v) == v.ty = "dict"

\* bool(v)
Truthy(v) ==
    CASE v.ty = "none" -> FALSE
      [] v.ty = "num" -> TRUE
      [] v.ty = "str" -> v.val # <<>>
      [] v.ty = "list" -> v.val # <<>>
      [] v.ty = "dict" -> DOMAIN v.val # {}

\* the return value of a harness call
NoRet == [ty |-> "noret", val |-> <<>>]
Returned(v) == [ty |-> "ret", val |-> v]
HasReturned == ret.ty = "ret"

\* no item in the table, the clock at 0, no call in progress
NoItems == [k \in {} |-> PyNone]
SweepIdle ==
    [pc |-> "idle", pending |-> {}, deleted_count |-> 0, result |-> 0, in_a_row |-> 0]
ProcIdle == [pc |-> "idle"]
NumProcs == 2
ProcIds == 1..NumProcs

SystemIdle ==
    /\ store = NoItems
    /\ now = 0
    /\ sweep = SweepIdle
    /\ procs = [i \in ProcIds |-> ProcIdle]

-----------------------------------------------------------------------------
(* str.strip() *)

RECURSIVE LStrip(_)
LStrip(s) == IF s # <<>> /\ Head(s) = " " THEN LStrip(Tail(s)) ELSE s

RECURSIVE RStrip(_)
RStrip(s) ==
    IF s # <<>> /\ s[Len(s)] = " " THEN RStrip(SubSeq(s, 1, Len(s) - 1)) ELSE s

Strip(s) == RStrip(LStrip(s))

\* list[:n]
Take(l, n) == SubSeq(l, 1, IF Len(l) < n THEN Len(l) ELSE n)

-----------------------------------------------------------------------------
(* integrationLayer.validate_moscow_priorities *)

Categories == <<"mustHave", "shouldHave", "couldHave", "wontHave">>

PriorityCap == 10

S_Core_vocabulary == <<"Core", " ", "vocabulary">>
S_Basic_grammar == <<"Basic", " ", "grammar">>
S_Pronunciation_practice == <<"Pronunciation", " ", "practice">>
S_Cultural_context == <<"Cultural", " ", "context">>

EmptyPriorities ==
    [mustHave |-> <<>>, shouldHave |-> <<>>, couldHave |-> <<>>, wontHave |-> <<>>]

\* [item.strip() for item in priority_list if isinstance(item, str) and item.strip()]
RECURSIVE CleanItems(_)
CleanItems(l) ==
    IF l = <<>> THEN <<>>
    ELSE (IF IsStr(Head(l)) /\ Strip(Head(l).val) # <<>>
          THEN <<Strip(Head(l).val)>> ELSE <<>>)
         \o CleanItems(Tail(l))

\* mutant: the list is cut to 10 entries before it is cleaned
CleanCategory_CutFirst(priorities, category) ==
    LET priority_list == Get(priorities.val, category, PyList(<<>>))
    IN  IF IsList(priority_list)
        THEN CleanItems(Take(priority_list.val, PriorityCap))
        ELSE <<>>

CleanCategory(priorities, category) ==
    LET priority_list == Get(priorities.val, category, PyList(<<>>))
    IN  IF IsList(priority_list)
        THEN Take(CleanItems(priority_list.val), PriorityCap)
        ELSE <<>>

total_priorities(validated) ==
    Len(validated.mustHave) + Len(validated.shouldHave)
        + Len(validated.couldHave) + Len(validated.wontHave)

\* mutant: the defaults are assigned to a copy that is not the one returned
DefaultPriorities_Dropped(validated) == validated

DefaultPriorities(validated) ==
    [validated EXCEPT !.mustHave = <<S_Core_vocabulary, S_Basic_grammar>>,
                      !.shouldHave = <<S_Pronunciation_practice, S_Cultural_context>>]

ValidateErrorPriorities ==
    [mustHave |-> <<S_Core_vocabulary>>, shouldHave |-> <<S_Basic_grammar>>,
     couldHave |-> <<>>, wontHave |-> <<>>]

validate_moscow_priorities(priorities) ==
    IF ~IsDict(priorities)
    THEN ValidateErrorPriorities    \* priorities.get raises: the except branch
    ELSE LET validated == [c \in {Categories[i] : i \in 1..4} |->
                              CleanCategory(priorities, c)]
         IN  IF total_priorities(validated) = 0
             THEN DefaultPriorities(validated)
             ELSE validated

-----------------------------------------------------------------------------
(* Inputs of the validate_moscow_priorities harness *)

MaxShortLen == 1
MaxOver == 1

RECURSIVE SeqsUpTo(_, _)
SeqsUpTo(S, n) ==
    IF n = 0 THEN {<<>>}
    ELSE LET shorter == SeqsUpTo(S, n - 1)
         IN  shorter \cup {Append(l, x) : l \in {m \in shorter : Len(m) = n - 1}, x \in S}

SampleItems ==
    {PyNum, PyStr(<<" ">>), PyStr(<<" ", "a", " ">>), PyStr(<<"b">>)}

LongPattern ==
    <<PyStr(<<"b">>), PyStr(<<" ", "a", " ">>), PyNum, PyStr(<<"a", " ", "b">>), PyStr(<<" ">>)>>

Cycle(p, n) == [i \in 1..n |-> p[((i - 1) % Len(p)) + 1]]

\* lists long enough for 10 and for more than 10 entries to survive
LongLists == {Cycle(LongPattern, 2 * PriorityCap + k) : k \in 0..MaxOver}

SampleCategoryValues ==
    {PyNone, PyNum}
        \cup {PyList(l) : l \in SeqsUpTo(SampleItems, MaxShortLen)}
        \cup {PyList(l) : l \in LongLists}

MISSING == [ty |-> "missing", val |-> <<>>]

\* a dict from the choice made for each key (MISSING: the key is absent)
DictOf(choice) ==
    PyDict([k \in {x \in DOMAIN choice : choice[x].ty # "missing"} |-> choice[k]])

SamplePriorityArgs ==
    {PyNone, PyList(<<>>)}
        \cup {DictOf(c) : c \in [{Categories[i] : i \in 1..4} ->
                                   SampleCategoryValues \cup {MISSING}]}

ValidateInit ==
    /\ call \in {[fn |-> "validate_moscow_priorities", args |-> <<a>>] :
                    a \in SamplePriorityArgs}
    /\ ret = NoRet
    /\ SystemIdle

ValidateCall ==
    /\ call.fn = "validate_moscow_priorities"
    /\ ret = NoRet
    /\ ret' = Returned(validate_moscow_priorities(call.args[1]))
    /\ UNCHANGED <<call, system>>

ValidateNext == ValidateCall

SpecValidate == ValidateInit /\ [][ValidateNext]_vars

\* C1: whatever the argument (a dict with missing categories, non-list values,
\* non-string items, whitespace-only strings, or a non-dict that takes the error
\* path), the result of validate_moscow_priorities never has mustHave, shouldHave,
\* couldHave and wontHave all empty at once.
C1_NeverAllEmpty ==
    (call.fn = "validate_moscow_priorities" /\ HasReturned)
        => ~(/\ ret.val.mustHave = <<>>
             /\ ret.val.shouldHave = <<>>
             /\ ret.val.couldHave = <<>>
             /\ ret.val.wontHave = <<>>)

\* C1 witness: a dict whose four categories all clean to nothing (a whitespace-only
\* string, a non-list, a non-string item, a missing key) has been validated.
C1_Witness ==
    /\ call.fn = "validate_moscow_priorities" /\ HasReturned
    /\ IsDict(call.args[1])
    /\ DOMAIN call.args[1].val = {"mustHave", "shouldHave", "couldHave"}
    /\ call.args[1].val["mustHave"] = PyList(<<PyStr(<<" ">>)>>)
    /\ call.args[1].val["shouldHave"] = PyNum
    /\ call.args[1].val["couldHave"] = PyList(<<PyNum>>)
    /\ ret.val.mustHave = <<S_Core_vocabulary, S_Basic_grammar>>

-----------------------------------------------------------------------------
(* integrationLayer.calculate_priority_time_allocation *)

Max(a, b) == IF a > b THEN a ELSE b
Min(a, b) == IF a < b THEN a ELSE b

\* round(num / den * 100), Python 3: to the nearest integer, a tie to the even one
\* (num >= 0, den > 0)
RoundPercent(num, den) ==
    LET q == (100 * num) \div den
        r == (100 * num) % den
    IN  IF 2 * r < den THEN q
        ELSE IF 2 * r > den THEN q + 1
        ELSE IF q % 2 = 0 THEN q ELSE q + 1

AllocationFallback == [mustHave |-> 70, shouldHave |-> 20, couldHave |-> 10, buffer |-> 0]

\* allocation before normalisation (lines 181-186)
BaseAllocation(should_have_count, could_have_count) ==
    [mustHave |-> Max(60, 80 - (should_have_count * 5)),
     shouldHave |-> Min(30, should_have_count * 8),
     couldHave |-> Min(15, could_have_count * 3),
     buffer |-> 10]

AllocationSum(a) == a.mustHave + a.shouldHave + a.couldHave + a.buffer

calculate_priority_time_allocation(priorities) ==
    IF ~IsDict(priorities)
    THEN AllocationFallback     \* priorities.get raises: the except branch
    ELSE LET should_have_count == Len(Get(priorities.val, "shouldHave", <<>>))
             could_have_count == Len(Get(priorities.val, "couldHave", <<>>))
             allocation == BaseAllocation(should_have_count, could_have_count)
             total == AllocationSum(allocation)
         IN  [k \in DOMAIN allocation |-> RoundPercent(allocation[k], total)]

(* Inputs of the calculate_priority_time_allocation harness: the validated
   profiles by the lengths of their lists, each 0..10 (wontHave left empty
   or not: the allocation does not read it). *)

Labels(n) == Cycle(<<S_Core_vocabulary, S_Basic_grammar, S_Cultural_context>>, n)

ValidatedByLength ==
    {[mustHave |-> Labels(m), shouldHave |-> Labels(s),
      couldHave |-> Labels(c), wontHave |-> Labels(w)] :
        m \in {0, 1, PriorityCap}, s \in 0..PriorityCap, c \in 0..PriorityCap,
        w \in {0, 1}}

AllocInit ==
    /\ call \in {[fn |-> "calculate_priority_time_allocation", args |-> <<PyDict(v)>>] :
                    v \in ValidatedByLength}
               \cup {[fn |-> "calculate_priority_time_allocation", args |-> <<PyNone>>]}
    /\ ret = NoRet
    /\ SystemIdle

AllocCall ==
    /\ call.fn = "calculate_priority_time_allocation"
    /\ ret = NoRet
    /\ ret' = Returned(calculate_priority_time_allocation(call.args[1]))
    /\ UNCHANGED <<call, system>>

AllocNext == AllocCall

SpecAlloc == AllocInit /\ [][AllocNext]_vars

\* C2: for every validated PriorityProfile (each list of length 0..10) the values
\* returned for mustHave, shouldHave, couldHave and buffer are integers that sum to
\* exactly 100, none of them negative.
C2_SumsTo100 ==
    (call.fn = "calculate_priority_time_allocation" /\ HasReturned
        /\ IsDict(call.args[1]))
        => /\ AllocationSum(ret.val) = 100
           /\ \A k \in DOMAIN ret.val : ret.val[k] \in Nat

-----------------------------------------------------------------------------
(* sorted() on lists of str, json.dumps(sort_keys=True) *)

\* the tokens of the texts that get sorted, in code-point order of their first
\* differing character (no token is a prefix of another)
TokenOrder ==
    <<" ", "Basic", "Business", "Casual", "Core", "Cultural", "Formal", "French",
      "German", "Grammar", "Professional", "Pronunciation", "Travel", "a", "b",
      "communication", "context", "conversation", "fundamentals", "grammar",
      "phrases", "practice", "terminology", "vocabulary", "writing">>

Rank(tok) == CHOOSE i \in 1..Len(TokenOrder) : TokenOrder[i] = tok

\* s < t for two str
RECURSIVE StrLess(_, _)
StrLess(s, t) ==
    IF s = <<>> THEN t # <<>>
    ELSE IF t = <<>> THEN FALSE
    ELSE IF Head(s) = Head(t) THEN StrLess(Tail(s), Tail(t))
    ELSE Rank(Head(s)) < Rank(Head(t))

RECURSIVE InsertSorted(_, _)
InsertSorted(x, l) ==
    IF l = <<>> THEN <<x>>
    ELSE IF StrLess(x, Head(l)) THEN <<x>> \o l
    ELSE <<Head(l)>> \o InsertSorted(x, Tail(l))

RECURSIVE SortTexts(_)
SortTexts(l) == IF l = <<>> THEN <<>> ELSE InsertSorted(Head(l), SortTexts(Tail(l)))

\* mutant: the list is used in the order given
Sorted_Unsorted(l) == l

\* sorted(l) for a list of texts
Sorted(l) == SortTexts(l)

\* the keys of the dicts that are serialised, in lexicographic order
KeyOrder ==
    <<"additionalLanguages", "buffer", "cached", "cefrLevel", "complexity",
      "content", "context", "contextualUse", "coreContent", "couldHave",
      "createdAt", "examples", "explanation", "format", "grammar", "inspiration",
      "isSpanishSpecialty", "language", "learningStyle", "lesson", "lessonContent",
      "lessonRequest", "metadata", "mustHave", "nationality", "nativeLanguage",
      "nativeLanguages", "objective", "phasePriorities", "placementTest",
      "practiceExercises", "priorities", "priorityScale", "priorityTimeAllocation",
      "proficiencyLevel", "reason", "rule", "shouldHave", "specificSituation",
      "targetLanguage", "themeContext", "title", "topic", "translation", "type",
      "userPriorities", "userProfile", "vocabulary", "wontHave", "word">>

SortedKeys(d) == SelectSeq(KeyOrder, LAMBDA k : k \in DOMAIN d)

\* json.dumps(v, sort_keys=True), as the sequence of the tokens of its text
RECURSIVE Json(_)
RECURSIVE JsonItems(_)
RECURSIVE JsonMembers(_, _)

JsonItems(l) ==
    IF l = <<>> THEN <<>>
    ELSE Json(Head(l)) \o (IF Tail(l) = <<>> THEN <<>> ELSE <<", ">> \o JsonItems(Tail(l)))

JsonMembers(d, keys) ==
    IF keys = <<>> THEN <<>>
    ELSE <<"\"", Head(keys), "\"", ": ">> \o Json(d[Head(keys)])
         \o (IF Tail(keys) = <<>> THEN <<>> ELSE <<", ">> \o JsonMembers(d, Tail(keys)))

Json(v) ==
    CASE v.ty = "none" -> <<"null">>
      [] v.ty = "num" -> <<"7">>
      [] v.ty = "str" -> <<"\"">> \o v.val \o <<"\"">>
      [] v.ty = "list" -> <<"[">> \o JsonItems(v.val) \o <<"]">>
      [] v.ty = "dict" -> <<"{">> \o JsonMembers(v.val, SortedKeys(v.val)) \o <<"}">>

\* a list of str from their texts, and back
StrList(texts) == PyList([i \in 1..Len(texts) |-> PyStr(texts[i])])
Texts(list) == [i \in 1..Len(list.val) |-> list.val[i].val]

-----------------------------------------------------------------------------
(* integrationLayer.generate_lesson_hash *)

\* hashlib.sha256(text.encode()).hexdigest()[:16].  The digest is taken as an
\* uninterpreted one-way function of the text: equal texts give equal digests,
\* and the collisions of the 64-bit prefix are left out of the model.
Sha256Hex16(text) == [sha256_16 |-> text]

\* sorted(priorities.get(category, []) if priorities else [])
PriorityKeyList(priorities, category) ==
    StrList(Sorted(IF Truthy(priorities)
                   THEN Get(priorities.val, category, <<>>)
                   ELSE <<>>))

\* mutant: wontHave is part of the key as well
PriorityKey_WithWontHave(priorities) ==
    PyDict([c \in {"mustHave", "shouldHave", "couldHave", "wontHave"} |->
               PriorityKeyList(priorities, c)])

\* cache_key_data['priorities'] (lines 279-283)
PriorityKey(priorities) ==
    PyDict([c \in {"mustHave", "shouldHave", "couldHave"} |->
               PriorityKeyList(priorities, c)])

cache_key_data(user_profile, lesson_request, priorities) ==
    PyDict(
        [nativeLanguage |-> Get(user_profile.val, "nativeLanguage", PyNone),
         nationality |-> Get(user_profile.val, "nationality", PyNone),
         learningStyle |-> Get(user_profile.val, "learningStyle", PyNone),
         additionalLanguages |->
             StrList(Sorted(Texts(Get(user_profile.val, "additionalLanguages",
                                      PyList(<<>>))))),
         targetLanguage |-> Get(lesson_request.val, "targetLanguage", PyNone),
         contextualUse |-> Get(lesson_request.val, "contextualUse", PyNone),
         topic |-> Get(lesson_request.val, "topic", PyNone),
         proficiencyLevel |->
             Get(lesson_request.val, "proficiencyLevel", PyStr(<<"beginner">>)),
         priorities |-> PriorityKey(priorities)])

cache_key_string(user_profile, lesson_request, priorities) ==
    Json(cache_key_data(user_profile, lesson_request, priorities))

generate_lesson_hash(user_profile, lesson_request, priorities) ==
    Sha256Hex16(cache_key_string(user_profile, lesson_request, priorities))

(* Inputs of the generate_lesson_hash harness: a (profile, request, priorities)
   triple and a second triple that differs from it in at most one field of the
   profile, of the request or of the priorities. *)

T(word) == PyStr(<<word>>)

SampleProfiles ==
    {DictOf([nationality |-> T("US"), learningStyle |-> T("balanced"),
             nativeLanguages |-> nl, nativeLanguage |-> n, additionalLanguages |-> al]) :
        nl \in {StrList(<<<<"English">>>>), StrList(<<<<"Malay">>, <<"English">>>>)},
        n \in {MISSING, T("English")},
        al \in {MISSING, StrList(<<<<"French">>, <<"German">>>>),
                StrList(<<<<"German">>, <<"French">>>>)}}

SampleContextualUse ==
    {MISSING, PyDict([type |-> T("professional"), inspiration |-> T("opera")])}

SampleRequests ==
    {DictOf([targetLanguage |-> tl, contextualUse |-> cu, topic |-> tp,
             proficiencyLevel |-> pl]) :
        tl \in {T("Italian"), PyDict([language |-> T("Italian"), reason |-> T("opera")])},
        cu \in SampleContextualUse,
        tp \in {MISSING, T("Travel")},
        pl \in {MISSING, T("A1")}}

\* validated priority profiles, and None
SampleHashPriorities ==
    {PyNone}
        \cup {PyDict([mustHave |-> m, shouldHave |-> s, couldHave |-> c, wontHave |-> w]) :
                m \in {<<>>, <<S_Core_vocabulary, S_Basic_grammar>>,
                       <<S_Basic_grammar, S_Core_vocabulary>>},
                s \in {<<>>, <<S_Cultural_context>>},
                c \in {<<>>, <<<<"b">>, <<"a", " ", "b">>>>, <<<<"a", " ", "b">>, <<"b">>>>},
                w \in {<<>>, <<<<"a">>>>}}

\* the keys on which two dicts differ
DiffKeys(d, e) ==
    {k \in DOMAIN d.val \cup DOMAIN e.val :
        \/ ~(k \in DOMAIN d.val /\ k \in DOMAIN e.val)
        \/ d.val[k] # e.val[k]}

OneFieldApart(d, e) ==
    IF IsDict(d) /\ IsDict(e) THEN Cardinality(DiffKeys(d, e)) <= 1 ELSE FALSE

HashVariants(a) ==
    {<<p, a[2], a[3]>> : p \in {q \in SampleProfiles : OneFieldApart(a[1], q)}}
        \cup {<<a[1], r, a[3]>> : r \in {q \in SampleRequests : OneFieldApart(a[2], q)}}
        \cup {<<a[1], a[2], x>> : x \in {q \in SampleHashPriorities : OneFieldApart(a[3], q)}}

HashInit ==
    /\ \E p \in SampleProfiles, r \in SampleRequests, x \in SampleHashPriorities :
          \E b \in HashVariants(<<p, r, x>>) :
             call = [fn |-> "generate_lesson_hash", args |-> <<p, r, x>>, alt |-> b]
    /\ ret = NoRet
    /\ SystemIdle

\* the fingerprints of both triples
HashCall ==
    /\ call.fn = "generate_lesson_hash"
    /\ ret = NoRet
    /\ ret' = Returned(<<generate_lesson_hash(call.args[1], call.args[2], call.args[3]),
                         generate_lesson_hash(call.alt[1], call.alt[2], call.alt[3])>>)
    /\ UNCHANGED <<call, system>>

HashNext == HashCall

SpecHash == HashInit /\ [][HashNext]_vars

HashReturned == call.fn = "generate_lesson_hash" /\ HasReturned

\* s is a reordering of t
IsPermutation(s, t) ==
    /\ Len(s) = Len(t)
    /\ \A i \in 1..Len(s) :
          Cardinality({j \in 1..Len(s) : s[j] = s[i]})
              = Cardinality({j \in 1..Len(t) : t[j] = s[i]})

\* the two triples are equal except for the order of the items inside mustHave,
\* shouldHave or couldHave
EqualUpToOrder(a, b) ==
    /\ a[1] = b[1]
    /\ a[2] = b[2]
    /\ IsDict(a[3]) /\ IsDict(b[3])
    /\ a[3].val.wontHave = b[3].val.wontHave
    /\ \A c \in {"mustHave", "shouldHave", "couldHave"} :
          IsPermutation(a[3].val[c], b[3].val[c])

\* C3: two (profile, request, priorities) triples that are equal except for the
\* order of the items inside mustHave, shouldHave or couldHave always get the same
\* fingerprint from generate_lesson_hash.
C3_OrderInsensitive ==
    (HashReturned /\ EqualUpToOrder(call.args, call.alt)) => ret.val[1] = ret.val[2]

\* C3 witness: both fingerprints are computed for triples whose mustHave lists hold
\* the same two items in opposite order.
C3_Witness ==
    /\ HashReturned /\ EqualUpToOrder(call.args, call.alt)
    /\ call.args[3].val.mustHave = <<S_Core_vocabulary, S_Basic_grammar>>
    /\ call.alt[3].val.mustHave = <<S_Basic_grammar, S_Core_vocabulary>>

\* the two triples are equal except for the wontHave list
EqualButWontHave(a, b) ==
    /\ a[1] = b[1]
    /\ a[2] = b[2]
    /\ IsDict(a[3]) /\ IsDict(b[3])
    /\ \A c \in {"mustHave", "shouldHave", "couldHave"} : a[3].val[c] = b[3].val[c]

\* C4: changing only the wontHave list of the priorities, all other inputs held
\* fixed, never changes the fingerprint returned by generate_lesson_hash.
C4_WontHaveIgnored ==
    (HashReturned /\ EqualButWontHave(call.args, call.alt)) => ret.val[1] = ret.val[2]

\* C4 witness: both fingerprints are computed for triples that differ in wontHave
\* and in nothing else.
C4_Witness ==
    /\ HashReturned /\ EqualButWontHave(call.args, call.alt)
    /\ call.args[3].val.wontHave = <<>>
    /\ call.alt[3].val.wontHave = <<<<"a">>>>
    /\ call.args[3].val.mustHave # <<>>

\* the two triples are equal except for the profile's nativeLanguages array
DifferInNativeLanguages(a, b) ==
    /\ DiffKeys(a[1], b[1]) = {"nativeLanguages"}
    /\ a[2] = b[2]
    /\ a[3] = b[3]

\* C5: the canonical object hashed by generate_lesson_hash contains the profile's
\* nativeLanguages array: two profiles that differ only in nativeLanguages give
\* different canonical objects (and so are not forced onto one cache key).
C5_NativeLanguagesInKey ==
    (HashReturned /\ DifferInNativeLanguages(call.args, call.alt))
        => /\ cache_key_string(call.args[1], call.args[2], call.args[3])
                # cache_key_string(call.alt[1], call.alt[2], call.alt[3])
           /\ ret.val[1] # ret.val[2]

-----------------------------------------------------------------------------
(* dynamodbCache: the pacific-lessons table *)

PyTrue == [ty |-> "true", val |-> <<>>]
PyFalse == [ty |-> "false", val |-> <<>>]
\* datetime.isoformat() of the clock reading t (compared as the reading itself)
PyTime(t) == [ty |-> "time", val |-> <<t>>]

CacheHours == 24        \* timedelta(hours=24)
TtlHours == 168         \* timedelta(days=7)

\* datetime.utcnow() - created_time > timedelta(hours=24)
Expired(item, utcnow) == utcnow - item.createdAt > CacheHours

\* mutant: the entry is served until its physical deletion deadline
get_cached_lesson_UntilTtl(table, lesson_hash, utcnow, store_ok) ==
    IF ~store_ok \/ lesson_hash \notin DOMAIN table THEN PyNone
    ELSE LET item == table[lesson_hash]
         IN  IF utcnow > item.ttl THEN PyNone
             ELSE PyDict([lessonContent |-> item.lessonContent,
                          metadata |-> PyDict([cached |-> PyTrue,
                                               createdAt |-> PyTime(item.createdAt),
                                               userProfile |-> item.userProfile,
                                               lessonRequest |-> item.lessonRequest])])

\* get_cached_lesson: None, or the lesson data of a fresh item.  store_ok is
\* FALSE when get_item raises (the except branches return None).
get_cached_lesson(table, lesson_hash, utcnow, store_ok) ==
    IF ~store_ok THEN PyNone
    ELSE IF lesson_hash \notin DOMAIN table THEN PyNone
    ELSE LET item == table[lesson_hash]
         IN  IF Expired(item, utcnow) THEN PyNone
             ELSE PyDict([lessonContent |-> item.lessonContent,
                          metadata |-> PyDict([cached |-> PyTrue,
                                               createdAt |-> PyTime(item.createdAt),
                                               userProfile |-> item.userProfile,
                                               lessonRequest |-> item.lessonRequest])])

\* cache_item (lines 71-78)
cache_item(lesson_data, user_profile, lesson_request, utcnow) ==
    [lessonContent |-> lesson_data,
     userProfile |-> user_profile,
     lessonRequest |-> lesson_request,
     createdAt |-> utcnow,
     ttl |-> utcnow + TtlHours]

\* mutant: the put is conditional on the key being absent
PutItem_IfAbsent(table, key, item) ==
    [k \in DOMAIN table \cup {key} |-> IF k \in DOMAIN table THEN table[k] ELSE item]

\* table.put_item(Item=item): the item under its key, replacing any other
PutItem(table, key, item) ==
    [k \in DOMAIN table \cup {key} |-> IF k = key THEN item ELSE table[k]]

\* table.delete_item(Key=key)
DeleteItem(table, key) == [k \in DOMAIN table \ {key} |-> table[k]]

\* cache_lesson: the table afterwards and the bool returned.  store_ok is FALSE
\* when put_item raises (the except branches return False).
cache_lesson(table, lesson_hash, lesson_data, user_profile, lesson_request, utcnow, store_ok) ==
    IF store_ok
    THEN [table |-> PutItem(table, lesson_hash,
                            cache_item(lesson_data, user_profile, lesson_request, utcnow)),
          ok |-> TRUE]
    ELSE [table |-> table, ok |-> FALSE]

\* the keys that match FilterExpression='createdAt < :cutoff'
ScanExpired(table, utcnow) ==
    {k \in DOMAIN table : table[k].createdAt < utcnow - CacheHours}

\* the number of items a scan reads before its page (1 MB of items) is full
ScanPageItems == 1

-----------------------------------------------------------------------------
(* The cache functions called directly: cache_lesson, get_cached_lesson and
   clear_expired_lessons against one table, the clock advancing, and DynamoDB's
   own TTL deletion (deploymentConfig: TimeToLiveSpecification on "ttl"). *)

\* the clock readings, in hours: around the 24 hour window and past the 7 days
ClockReadings == {0, 12, 24, 36, 48, 192, 216}

ScenarioProfile ==
    PyDict([nativeLanguages |-> StrList(<<<<"English">>>>),
            nationality |-> T("US"),
            learningStyle |-> T("balanced")])

SampleCacheRequests ==
    {PyDict([targetLanguage |-> T(l), topic |-> T("Travel")]) : l \in {"Spanish", "Italian"}}

SampleLessonData ==
    {PyDict([lessonContent |-> T(c)]) : c \in {"lessonA", "lessonB"}}

\* the fingerprint each sample request is cached under
CacheKey ==
    [r \in SampleCacheRequests |-> generate_lesson_hash(ScenarioProfile, r, PyNone)]

\* the order in which a scan reads the items: fixed by DynamoDB's hashing of
\* the keys, any order here
ScanOrder ==
    LET keys == {CacheKey[r] : r \in SampleCacheRequests}
    IN  CHOOSE order \in [1..Cardinality(keys) -> keys] :
            \A k \in keys : \E i \in DOMAIN order : order[i] = k

\* the items one scan call reads: the filter is applied to the first page, and
\* clear_expired_lessons does not follow LastEvaluatedKey to the next
ScanPage(table) ==
    LET present == SelectSeq(ScanOrder, LAMBDA k : k \in DOMAIN table)
    IN  {present[i] : i \in 1..Min(ScanPageItems, Len(present))}

CacheInit ==
    /\ call = [fn |-> "none"]
    /\ ret = NoRet
    /\ SystemIdle

\* in_a_row after a cache_lesson call or an advance of the clock
Disturbed(s) == IF s.pc = "delete" THEN -1 ELSE 0

\* cache_lesson(lesson_hash, lesson_data, user_profile, lesson_request)
CachePut(request, lesson_data, store_ok) ==
    LET lesson_hash == CacheKey[request]
        done == cache_lesson(store, lesson_hash, lesson_data, ScenarioProfile, request,
                             now, store_ok)
    IN  /\ call' = [fn |-> "cache_lesson", args |-> <<lesson_hash, lesson_data>>,
                    store_ok |-> store_ok]
        /\ ret' = Returned(IF done.ok THEN PyTrue ELSE PyFalse)
        /\ store' = done.table
        /\ sweep' = [sweep EXCEPT !.in_a_row = Disturbed(sweep)]
        /\ UNCHANGED <<now, procs>>

\* mutant: a get deletes the item it finds expired
CacheGet_DeletesExpired(request, store_ok) ==
    LET lesson_hash == CacheKey[request]
    IN  /\ call' = [fn |-> "get_cached_lesson", args |-> <<lesson_hash>>,
                    store_ok |-> store_ok]
        /\ ret' = Returned(get_cached_lesson(store, lesson_hash, now, store_ok))
        /\ store' = IF lesson_hash \in DOMAIN store /\ Expired(store[lesson_hash], now)
                    THEN DeleteItem(store, lesson_hash)
                    ELSE store
        /\ UNCHANGED <<now, sweep, procs>>

\* get_cached_lesson(lesson_hash)
CacheGet(request, store_ok) ==
    LET lesson_hash == CacheKey[request]
    IN  /\ call' = [fn |-> "get_cached_lesson", args |-> <<lesson_hash>>,
                    store_ok |-> store_ok]
        /\ ret' = Returned(get_cached_lesson(store, lesson_hash, now, store_ok))
        /\ UNCHANGED system

\* clear_expired_lessons, up to the end of the scan; a ClientError from the scan
\* ends the call with 0.  in_a_row counts the calls that ran and returned
\* normally since the last cache_lesson call and the last advance of the clock
\* (-1 while a call is running that one of them interrupted).
SweepScan(store_ok) ==
    /\ sweep.pc = "idle"
    /\ sweep' = IF store_ok
                THEN [pc |-> "delete",
                      pending |-> ScanExpired(store, now) \cap ScanPage(store),
                      deleted_count |->
                          Cardinality(ScanExpired(store, now) \cap ScanPage(store)),
                      result |-> 0,
                      in_a_row |-> sweep.in_a_row]
                ELSE SweepIdle
    /\ UNCHANGED <<harness, store, now, procs>>

\* the batch writer deletes one of the scanned keys
SweepDelete(k) ==
    /\ sweep.pc = "delete"
    /\ k \in sweep.pending
    /\ store' = DeleteItem(store, k)
    /\ sweep' = [sweep EXCEPT !.pending = @ \ {k}]
    /\ UNCHANGED <<harness, now, procs>>

\* the batch writer raises a ClientError: the call ends with 0
SweepFail ==
    /\ sweep.pc = "delete"
    /\ sweep.pending # {}
    /\ sweep' = SweepIdle
    /\ UNCHANGED <<harness, store, now, procs>>

\* return deleted_count
SweepReturn ==
    /\ sweep.pc = "delete"
    /\ sweep.pending = {}
    /\ sweep' = [SweepIdle EXCEPT !.result = sweep.deleted_count,
                                  !.in_a_row = Min(sweep.in_a_row + 1, 2)]
    /\ UNCHANGED <<harness, store, now, procs>>

\* DynamoDB removes an item whose ttl has passed
TtlDelete(k) ==
    /\ k \in DOMAIN store
    /\ now > store[k].ttl
    /\ store' = DeleteItem(store, k)
    /\ UNCHANGED <<harness, now, sweep, procs>>

CacheTick(t) ==
    /\ t > now
    /\ now' = t
    /\ sweep' = [sweep EXCEPT !.in_a_row = Disturbed(sweep)]
    /\ UNCHANGED <<harness, store, procs>>

CacheNext ==
    \/ \E r \in SampleCacheRequests, d \in SampleLessonData, ok \in BOOLEAN :
          CachePut(r, d, ok)
    \/ \E r \in SampleCacheRequests, ok \in BOOLEAN : CacheGet(r, ok)
    \/ \E ok \in BOOLEAN : SweepScan(ok)
    \/ \E k \in DOMAIN store : SweepDelete(k)
    \/ SweepFail
    \/ SweepReturn
    \/ \E k \in DOMAIN store : TtlDelete(k)
    \/ \E t \in ClockReadings : CacheTick(t)

SpecCache == CacheInit /\ [][CacheNext]_vars

\* C6: a get_cached_lesson(k) made while the item stored under k was created more
\* than 24 hours before the current time returns None, whether or not the item is
\* still in the table and whatever puts, gets, sweeps and clock advances came
\* before.
C6_ExpiredIsAbsent ==
    [][\A r \in SampleCacheRequests, ok \in BOOLEAN :
          LET k == CacheKey[r]
          IN  (CacheGet(r, ok) /\ k \in DOMAIN store /\ now - store[k].createdAt > CacheHours)
                  => ret'.val.ty = "none"]_vars

\* C6 witness: a get has just returned None for a key whose item is still in the
\* table, was created more than 24 hours ago, and no sweep has deleted anything.
C6_Witness ==
    /\ call.fn = "get_cached_lesson" /\ HasReturned /\ call.store_ok
    /\ ret.val.ty = "none"
    /\ call.args[1] \in DOMAIN store
    /\ now - store[call.args[1]].createdAt > CacheHours
    /\ now <= store[call.args[1]].ttl
    /\ sweep = SweepIdle

\* C13: when clear_expired_lessons has returned twice in a row, with no
\* cache_lesson call between the two calls, the second call found nothing to
\* delete and returned 0.
C13_SweepIdempotent ==
    /\ (sweep.pc = "delete" /\ sweep.in_a_row >= 1) => sweep.deleted_count = 0
    /\ (sweep.pc = "idle" /\ sweep.in_a_row = 2) => sweep.result = 0

\* C14: a get_cached_lesson call leaves the table as it was, whether it finds a
\* fresh item, no item, an expired item, or get_item raises.
C14_GetLeavesStore ==
    [][\A r \in SampleCacheRequests, ok \in BOOLEAN :
          CacheGet(r, ok) => store' = store]_vars

\* C14 witness: a get has returned None for an expired item that is still in the
\* table, next to a second item.
C14_Witness ==
    /\ call.fn = "get_cached_lesson" /\ HasReturned /\ call.store_ok
    /\ ret.val.ty = "none"
    /\ call.args[1] \in DOMAIN store
    /\ Expired(store[call.args[1]], now)
    /\ Cardinality(DOMAIN store) = 2

-----------------------------------------------------------------------------
(* integrationLayer.extract_moscow_priorities, convert_contextual_to_moscow *)

\* a dict of four lists of str from the texts of each list
PriorityDict(m, s, c, w) ==
    PyDict([mustHave |-> StrList(m), shouldHave |-> StrList(s),
            couldHave |-> StrList(c), wontHave |-> StrList(w)])

\* str.lower(), token by token
LowerToken(tok) ==
    CASE tok = "Professional" -> "professional"
      [] tok = "Personal" -> "personal"
      [] tok = "PROFESSIONAL" -> "professional"
      [] OTHER -> tok

Lower(s) == [i \in 1..Len(s) |-> LowerToken(s[i])]

\* mutant: every type gets the balanced lists
convert_contextual_to_moscow_Balanced(contextual_use) ==
    PriorityDict(
        <<S_Core_vocabulary, S_Basic_grammar>>,
        <<S_Pronunciation_practice, <<"Basic", " ", "conversation">>>>,
        <<S_Cultural_context, <<"Professional", " ", "communication">>>>,
        <<>>)

convert_contextual_to_moscow(contextual_use) ==
    LET type == Get(contextual_use.val, "type", PyStr(<<>>))
    IN  IF ~IsStr(type)
        THEN \* .lower() raises: the except branch
             PriorityDict(<<S_Core_vocabulary>>, <<S_Basic_grammar>>, <<>>, <<>>)
        ELSE LET use_type == Lower(type.val)
             IN  IF use_type = <<"professional">>
                 THEN PriorityDict(
                        <<<<"Professional", " ", "communication">>, S_Core_vocabulary,
                          <<"Grammar", " ", "fundamentals">>>>,
                        <<<<"Business", " ", "terminology">>, <<"Formal", " ", "writing">>,
                          S_Pronunciation_practice>>,
                        <<S_Cultural_context, <<"Casual", " ", "conversation">>>>,
                        <<>>)
                 ELSE IF use_type = <<"personal">>
                 THEN PriorityDict(
                        <<<<"Basic", " ", "conversation">>, S_Core_vocabulary,
                          S_Pronunciation_practice>>,
                        <<S_Cultural_context, <<"Travel", " ", "phrases">>,
                          <<"Grammar", " ", "fundamentals">>>>,
                        <<<<"Professional", " ", "communication">>,
                          <<"Formal", " ", "writing">>>>,
                        <<>>)
                 ELSE PriorityDict(
                        <<S_Core_vocabulary, S_Basic_grammar>>,
                        <<S_Pronunciation_practice, <<"Basic", " ", "conversation">>>>,
                        <<S_Cultural_context, <<"Professional", " ", "communication">>>>,
                        <<>>)

\* any(source.get(key, []) for key in ['mustHave', 'shouldHave', 'couldHave'])
AnyPriority(source) ==
    \E key \in {"mustHave", "shouldHave", "couldHave"} :
        Truthy(Get(source.val, key, PyList(<<>>)))

NoPriorities == PriorityDict(<<>>, <<>>, <<>>, <<>>)

\* mutant: userPriorities is tried before phasePriorities
extract_moscow_priorities_UserFirst(lesson_request) ==
    LET phase_priorities == Get(lesson_request.val, "phasePriorities", PyDict(EmptyDict))
        user_priorities == Get(lesson_request.val, "userPriorities", PyDict(EmptyDict))
        contextual_use == Get(lesson_request.val, "contextualUse", PyDict(EmptyDict))
    IN  IF Truthy(user_priorities) /\ ~IsDict(user_priorities) THEN NoPriorities
        ELSE IF Truthy(user_priorities) /\ AnyPriority(user_priorities)
        THEN user_priorities
        ELSE IF Truthy(phase_priorities) /\ ~IsDict(phase_priorities) THEN NoPriorities
        ELSE IF Truthy(phase_priorities) /\ AnyPriority(phase_priorities)
        THEN phase_priorities
        ELSE IF Truthy(contextual_use) /\ ~IsDict(contextual_use) THEN NoPriorities
        ELSE IF Truthy(contextual_use)
                /\ Truthy(Get(contextual_use.val, "priorityScale", PyNone))
        THEN convert_contextual_to_moscow(contextual_use)
        ELSE NoPriorities

\* mutant: a source that is not a dict is passed over
extract_moscow_priorities_SkipsBadSource(lesson_request) ==
    LET phase_priorities == Get(lesson_request.val, "phasePriorities", PyDict(EmptyDict))
        user_priorities == Get(lesson_request.val, "userPriorities", PyDict(EmptyDict))
        contextual_use == Get(lesson_request.val, "contextualUse", PyDict(EmptyDict))
    IN  IF IsDict(phase_priorities) /\ Truthy(phase_priorities)
           /\ AnyPriority(phase_priorities)
        THEN phase_priorities
        ELSE IF IsDict(user_priorities) /\ Truthy(user_priorities)
                /\ AnyPriority(user_priorities)
        THEN user_priorities
        ELSE IF IsDict(contextual_use) /\ Truthy(contextual_use)
                /\ Truthy(Get(contextual_use.val, "priorityScale", PyNone))
        THEN convert_contextual_to_moscow(contextual_use)
        ELSE NoPriorities

\* a truthy value without .get makes the try block raise
extract_moscow_priorities(lesson_request) ==
    LET phase_priorities == Get(lesson_request.val, "phasePriorities", PyDict(EmptyDict))
        user_priorities == Get(lesson_request.val, "userPriorities", PyDict(EmptyDict))
        contextual_use == Get(lesson_request.val, "contextualUse", PyDict(EmptyDict))
    IN  IF Truthy(phase_priorities) /\ ~IsDict(phase_priorities) THEN NoPriorities
        ELSE IF Truthy(phase_priorities) /\ AnyPriority(phase_priorities)
        THEN phase_priorities
        ELSE IF Truthy(user_priorities) /\ ~IsDict(user_priorities) THEN NoPriorities
        ELSE IF Truthy(user_priorities) /\ AnyPriority(user_priorities)
        THEN user_priorities
        ELSE IF Truthy(contextual_use) /\ ~IsDict(contextual_use) THEN NoPriorities
        ELSE IF Truthy(contextual_use)
                /\ Truthy(Get(contextual_use.val, "priorityScale", PyNone))
        THEN convert_contextual_to_moscow(contextual_use)
        ELSE NoPriorities

(* Inputs of the extract_moscow_priorities harness: a request by its
   phasePriorities, its userPriorities and its contextualUse. *)

\* a priority source: absent, None, empty, all lists empty, only wontHave
\* filled, one of the three read lists filled, or not a dict
SampleSources(label) ==
    {MISSING, PyNone, PyDict(EmptyDict),
     PriorityDict(<<>>, <<>>, <<>>, <<>>),
     PriorityDict(<<>>, <<>>, <<>>, <<<<label>>>>),
     PriorityDict(<<<<label>>>>, <<>>, <<>>, <<>>),
     PyDict([couldHave |-> StrList(<<<<label>>>>)]),
     PyList(<<T(label)>>)}

SampleDescriptors ==
    {MISSING, PyDict(EmptyDict), T("professional"),
     PyDict([type |-> T("professional")]),
     PyDict([type |-> T("professional"), priorityScale |-> PyNum]),
     PyDict([type |-> T("Professional"), priorityScale |-> PyNum]),
     PyDict([type |-> T("personal"), priorityScale |-> PyNum,
             inspiration |-> T("opera")]),
     PyDict([type |-> T("academic"), priorityScale |-> PyNum]),
     PyDict([priorityScale |-> PyNum]),
     PyDict([type |-> PyNum, priorityScale |-> PyNum])}

SampleExtractRequests ==
    {DictOf([targetLanguage |-> T("Italian"), phasePriorities |-> ph,
             userPriorities |-> us, contextualUse |-> cu]) :
        ph \in SampleSources("a"), us \in SampleSources("b"), cu \in SampleDescriptors}

ExtractInit ==
    /\ call \in {[fn |-> "extract_moscow_priorities", args |-> <<r>>] :
                    r \in SampleExtractRequests}
    /\ ret = NoRet
    /\ SystemIdle

ExtractCall ==
    /\ call.fn = "extract_moscow_priorities"
    /\ ret = NoRet
    /\ ret' = Returned(extract_moscow_priorities(call.args[1]))
    /\ UNCHANGED <<call, system>>

ExtractNext == ExtractCall

SpecExtract == ExtractInit /\ [][ExtractNext]_vars

\* the three sources of the request extract_moscow_priorities was called with
PhaseSource == Get(call.args[1].val, "phasePriorities", MISSING)
UserSource == Get(call.args[1].val, "userPriorities", MISSING)
Descriptor == Get(call.args[1].val, "contextualUse", MISSING)

\* a source as the data model has it: absent, or a dict of lists
IsSource(source) ==
    \/ source.ty \in {"missing", "none"}
    \/ IsDict(source) /\ \A k \in DOMAIN source.val : IsList(source.val[k])

\* at least one of its mustHave, shouldHave, couldHave lists is non-empty
NonTrivial(source) ==
    /\ IsDict(source)
    /\ \E k \in {"mustHave", "shouldHave", "couldHave"} \cap DOMAIN source.val :
          Len(source.val[k].val) > 0

ExtractReturned == call.fn = "extract_moscow_priorities" /\ HasReturned

\* C15: for a request whose phasePriorities and userPriorities are absent or
\* dicts of lists, extract_moscow_priorities returns phasePriorities when it is
\* non-trivial, else userPriorities when it is non-trivial, else what the
\* contextual-use step gives (its mapping or four empty lists); a source with
\* only wontHave filled is passed over.
C15_SourcePrecedence ==
    (ExtractReturned /\ IsSource(PhaseSource) /\ IsSource(UserSource)) =>
        IF NonTrivial(PhaseSource) THEN ret.val = PhaseSource
        ELSE IF NonTrivial(UserSource) THEN ret.val = UserSource
        ELSE \/ ret.val = NoPriorities
             \/ IsDict(Descriptor) /\ ret.val = convert_contextual_to_moscow(Descriptor)

\* C15 witness: phasePriorities has only wontHave filled, userPriorities has a
\* mustHave item, and userPriorities was returned.
C15_Witness ==
    /\ ExtractReturned
    /\ PhaseSource = PriorityDict(<<>>, <<>>, <<>>, <<<<"a">>>>)
    /\ UserSource = PriorityDict(<<<<"b">>>>, <<>>, <<>>, <<>>)
    /\ ret.val = UserSource

\* the lists the claim names for a type
ProfessionalDefaults ==
    PriorityDict(<<<<"Professional", " ", "communication">>, <<"Core", " ", "vocabulary">>,
                   <<"Grammar", " ", "fundamentals">>>>,
                 <<<<"Business", " ", "terminology">>, <<"Formal", " ", "writing">>,
                   <<"Pronunciation", " ", "practice">>>>,
                 <<<<"Cultural", " ", "context">>, <<"Casual", " ", "conversation">>>>,
                 <<>>)

ConversationalDefaults ==
    PriorityDict(<<<<"Basic", " ", "conversation">>, <<"Core", " ", "vocabulary">>,
                   <<"Pronunciation", " ", "practice">>>>,
                 <<<<"Cultural", " ", "context">>, <<"Travel", " ", "phrases">>,
                   <<"Grammar", " ", "fundamentals">>>>,
                 <<<<"Professional", " ", "communication">>, <<"Formal", " ", "writing">>>>,
                 <<>>)

BalancedDefaults ==
    PriorityDict(<<<<"Core", " ", "vocabulary">>, <<"Basic", " ", "grammar">>>>,
                 <<<<"Pronunciation", " ", "practice">>, <<"Basic", " ", "conversation">>>>,
                 <<<<"Cultural", " ", "context">>, <<"Professional", " ", "communication">>>>,
                 <<>>)

HeuristicMapping(type) ==
    CASE type \in {T("professional"), T("Professional")} -> ProfessionalDefaults
      [] type \in {T("personal"), T("Personal")} -> ConversationalDefaults
      [] OTHER -> BalancedDefaults

\* neither phasePriorities nor userPriorities is non-trivial
NoExplicitPriorities ==
    /\ IsSource(PhaseSource) /\ ~NonTrivial(PhaseSource)
    /\ IsSource(UserSource) /\ ~NonTrivial(UserSource)

\* C16 as stated: with no non-trivial phasePriorities or userPriorities, a
\* request that carries a contextual-use descriptor gets the mapping for the
\* descriptor's type.
C16_DescriptorGivesMapping ==
    (ExtractReturned /\ NoExplicitPriorities /\ IsDict(Descriptor) /\ Truthy(Descriptor)
     /\ IsStr(Get(Descriptor.val, "type", PyStr(<<>>)))) =>
        ret.val = HeuristicMapping(Get(Descriptor.val, "type", PyStr(<<>>)))

\* C16 amended: with no non-trivial phasePriorities or userPriorities, a
\* request whose contextualUse dict has a truthy priorityScale gets the mapping
\* for its type (a str compared without regard to case, absent counting as
\* other); a contextualUse dict without a truthy priorityScale gives four empty
\* lists.
C16_ScaledDescriptorGivesMapping ==
    (ExtractReturned /\ NoExplicitPriorities /\ IsDict(Descriptor)
     /\ IsStr(Get(Descriptor.val, "type", PyStr(<<>>)))) =>
        IF Truthy(Get(Descriptor.val, "priorityScale", PyNone))
        THEN ret.val = HeuristicMapping(Get(Descriptor.val, "type", PyStr(<<>>)))
        ELSE ret.val = NoPriorities

\* C16 witness: no explicit priorities, contextualUse = {type: 'Professional',
\* priorityScale: a number}, and the professional lists were returned.
C16_Witness ==
    /\ ExtractReturned
    /\ NoExplicitPriorities
    /\ Descriptor = PyDict([type |-> T("Professional"), priorityScale |-> PyNum])
    /\ ret.val = ProfessionalDefaults

-----------------------------------------------------------------------------
(* aiLessonGenerator *)

\* an exception raised, a value returned
Raised(message) == [raised |-> TRUE, error |-> message, value |-> PyNone]
Value(v) == [raised |-> FALSE, error |-> "", value |-> v]

PyInt(n) == [ty |-> "int", val |-> <<n>>]

\* d[key] = v for a dict d
SetItem(d, key, v) ==
    PyDict([k \in DOMAIN d.val \cup {key} |-> IF k = key THEN v ELSE d.val[k]])

\* preprocess_frontend_request: it assigns into the two dicts it is given, and
\* into the contextualUse dict the request holds, and returns them or raises a
\* ValueError.  user_profile and lesson_request are those two dicts
\* afterwards; contextualUse_written tells
\* that the request's own contextualUse dict (shared with every shallow copy of
\* the request) got the inspiration.
preprocess_frontend_request(user_profile, lesson_request) ==
    LET p1 == IF IsStr(Get(user_profile.val, "nativeLanguages", PyNone))
              THEN SetItem(user_profile, "nativeLanguages",
                           PyList(<<user_profile.val["nativeLanguages"]>>))
              ELSE user_profile
        p2 == IF ~IsList(Get(p1.val, "additionalLanguages", PyNone))
              THEN SetItem(p1, "additionalLanguages", PyList(<<>>))
              ELSE p1
        target_lang == Get(lesson_request.val, "targetLanguage", PyNone)
        has_reason == IsDict(target_lang) /\ "reason" \in DOMAIN target_lang.val
        shared == has_reason /\ "contextualUse" \in DOMAIN lesson_request.val
        r1 == IF IsDict(target_lang)
              THEN SetItem(lesson_request, "targetLanguage",
                           Get(target_lang.val, "language", T("Unknown")))
              ELSE lesson_request
        r2 == IF has_reason
              THEN SetItem(r1, "contextualUse",
                           SetItem(Get(r1.val, "contextualUse", PyDict(EmptyDict)),
                                   "inspiration", target_lang.val["reason"]))
              ELSE r1
        r3 == IF "contextualUse" \notin DOMAIN r2.val
              THEN SetItem(r2, "contextualUse", PyDict([type |-> T("personal")]))
              ELSE r2
    IN  IF has_reason /\ "contextualUse" \in DOMAIN lesson_request.val
           /\ ~IsDict(lesson_request.val["contextualUse"])
        THEN [raised |-> TRUE, error |-> "Invalid frontend data structure",
              user_profile |-> p2, lesson_request |-> r1, contextualUse_written |-> FALSE]
        ELSE [raised |-> FALSE, error |-> "",
              user_profile |-> p2, lesson_request |-> r3, contextualUse_written |-> shared]

\* build_lesson_prompt: the values the prompt text is built from
build_lesson_prompt(user_profile, lesson_request) ==
    LET target_language_data == Get(lesson_request.val, "targetLanguage", PyDict(EmptyDict))
        placement_results == Get(user_profile.val, "placementTest", PyDict(EmptyDict))
        priorities == Get(lesson_request.val, "phasePriorities", PyDict(EmptyDict))
    IN  [target_lang |-> IF IsDict(target_language_data)
                         THEN Get(target_language_data.val, "language", T("Unknown"))
                         ELSE target_language_data,
         native_languages |-> Get(user_profile.val, "nativeLanguages",
                                  StrList(<<<<"English">>>>)),
         topic |-> Get(lesson_request.val, "topic", PyStr(<<"Basic", " ", "Communication">>)),
         proficiency |-> Get(placement_results.val, "cefrLevel", T("A1")),
         contextual_use |-> Get(lesson_request.val, "contextualUse", PyDict(EmptyDict)),
         must_have_priorities |-> Get(priorities.val, "mustHave", PyList(<<>>)),
         should_have_priorities |-> Get(priorities.val, "shouldHave", PyList(<<>>)),
         could_have_priorities |-> Get(priorities.val, "couldHave", PyList(<<>>)),
         wont_have_priorities |-> Get(priorities.val, "wontHave", PyList(<<>>)),
         priority_time_allocation |->
             Get(lesson_request.val, "priorityTimeAllocation", PyDict(EmptyDict))]

\* what bedrock_runtime.converse does with a prompt
BedrockOutcomes ==
    {"json_valid", "json_incomplete", "text", "ThrottlingException",
     "ValidationException", "ClientError", "Exception"}

\* a lesson as the prompt asks for it
CompleteLesson ==
    PyDict([lesson |-> PyDict(
        [title |-> T("title"), objective |-> T("objective"), themeContext |-> T("theme"),
         coreContent |-> PyDict(
            [vocabulary |-> PyList(<<PyDict([word |-> T("ciao"), translation |-> T("hello"),
                                            context |-> T("greeting")])>>),
             grammar |-> PyDict([rule |-> T("rule"), explanation |-> T("explanation"),
                                 examples |-> PyList(<<T("example")>>)]),
             practiceExercises |-> PyList(<<PyDict([type |-> T("translation")]),
                                           PyDict([type |-> T("fill_blank")])>>)])])])

\* a lesson without grammar and with a single practice exercise
IncompleteLesson ==
    PyDict([lesson |-> PyDict(
        [title |-> T("title"), objective |-> T("objective"), themeContext |-> T("theme"),
         coreContent |-> PyDict(
            [vocabulary |-> PyList(<<PyDict([word |-> T("ciao"), translation |-> T("hello"),
                                            context |-> T("greeting")])>>),
             practiceExercises |-> PyList(<<PyDict([type |-> T("translation")])>>)])])])

TextFallbackLesson ==
    PyDict([lesson |-> PyDict(
        [title |-> PyStr(<<"Generated", " ", "Language", " ", "Lesson">>),
         content |-> T("text"), format |-> T("text_fallback")])])

RateLimitMessage == "API rate limit exceeded. Please try again in a moment."
InvalidRequestMessage == "Invalid request parameters sent to AI model."
ModelErrorMessage == "AI model error: <error_message>"
GenerateFailedMessage == "Failed to generate lesson: <exception>"
NameErrorMessage == "name 'must_have_priorities' is not defined"

\* mutant: every ClientError is reported with the generic message
call_bedrock_nova_pro_Generic(prompt, outcome) ==
    CASE outcome = "json_valid" -> Value(CompleteLesson)
      [] outcome = "json_incomplete" -> Value(IncompleteLesson)
      [] outcome = "text" -> Value(TextFallbackLesson)
      [] outcome = "Exception" -> Raised(GenerateFailedMessage)
      [] OTHER -> Raised(ModelErrorMessage)

call_bedrock_nova_pro(prompt, outcome) ==
    CASE outcome = "json_valid" -> Value(CompleteLesson)
      [] outcome = "json_incomplete" -> Value(IncompleteLesson)
      [] outcome = "text" -> Value(TextFallbackLesson)
      [] outcome = "ThrottlingException" -> Raised(RateLimitMessage)
      [] outcome = "ValidationException" -> Raised(InvalidRequestMessage)
      [] outcome = "ClientError" -> Raised(ModelErrorMessage)
      [] outcome = "Exception" -> Raised(GenerateFailedMessage)

\* all(key in d for key in keys)
HasKeys(d, keys) == IsDict(d) /\ keys \subseteq DOMAIN d.val

\* validate_lesson_content; a value of the wrong type makes the try block raise,
\* and the except branch returns False
validate_lesson_content(lesson_data) ==
    IF ~IsDict(lesson_data) THEN FALSE
    ELSE LET lesson == Get(lesson_data.val, "lesson", PyDict(EmptyDict))
         IN  IF ~HasKeys(lesson, {"title", "objective", "themeContext", "coreContent"})
             THEN FALSE
             ELSE LET core_content == lesson.val["coreContent"]
                  IN  IF ~IsDict(core_content) THEN FALSE
                      ELSE LET vocabulary == Get(core_content.val, "vocabulary", PyList(<<>>))
                               grammar == Get(core_content.val, "grammar", PyDict(EmptyDict))
                               practice_exercises ==
                                   Get(core_content.val, "practiceExercises", PyList(<<>>))
                           IN  /\ Truthy(vocabulary) \/ Truthy(grammar)
                               /\ Truthy(lesson.val["themeContext"])
                               /\ IsList(practice_exercises)
                               /\ Len(practice_exercises.val) >= 2
                               /\ IsList(vocabulary)
                               /\ \A i \in 1..Len(vocabulary.val) :
                                     HasKeys(vocabulary.val[i], {"word", "translation", "context"})
                               /\ Truthy(grammar)
                                     => HasKeys(grammar, {"rule", "explanation", "examples"})

\* the dict literal assigned to lesson_data (lines 39-53): its metadata names
\* must_have_priorities, current_phase and priority_time_allocation, which
\* generate_lesson_with_ai never binds, and the entry before them has no comma.
\* No build evaluates it to a dict; reaching it ends the call with an error.
lesson_data_literal(lesson_content, processed_profile, processed_request) ==
    Raised(NameErrorMessage)

\* generate_lesson_with_ai: what it raises or returns, the caller's profile dict
\* afterwards, whether the caller's contextualUse dict was written, and the
\* number of calls of the Bedrock model.  outcome is what Bedrock does.
generate_lesson_with_ai(user_profile, lesson_request, outcome) ==
    LET pre == preprocess_frontend_request(user_profile, lesson_request)
    IN  IF pre.raised
        THEN [raised |-> TRUE, error |-> pre.error, value |-> PyNone, warned |-> FALSE,
              user_profile |-> pre.user_profile, contextualUse_written |-> FALSE,
              bedrock_calls |-> 0]
        ELSE
        LET processed_profile == pre.user_profile
            processed_request == pre.lesson_request
            prompt == build_lesson_prompt(processed_profile, processed_request)
            bedrock == call_bedrock_nova_pro(prompt, outcome)
            lesson_data == lesson_data_literal(bedrock.value, processed_profile,
                                               processed_request)
            end == IF bedrock.raised THEN bedrock ELSE lesson_data
        IN  [raised |-> end.raised, error |-> end.error, value |-> end.value,
             \* the warning logged when validate_lesson_content returns False
             warned |-> ~bedrock.raised /\ ~validate_lesson_content(bedrock.value),
             user_profile |-> processed_profile,
             contextualUse_written |-> pre.contextualUse_written,
             bedrock_calls |-> 1]

-----------------------------------------------------------------------------
(* integrationLayer.format_lesson_response, dynamodbCache.get_cache_stats *)

PyBool(b) == IF b THEN PyTrue ELSE PyFalse

\* what LESSONS_TABLE.describe_table() does: it answers, it raises a
\* ClientError, or it raises another exception
DescribeOutcomes == {"ok", "ClientError", "Exception"}

\* get_cache_stats; ItemCount and TableSizeBytes are DynamoDB's approximate
\* figures and are not part of the model
get_cache_stats(describe) ==
    CASE describe = "ok" -> Value(PyDict([tableName |-> T("pacific-lessons"),
                                          region |-> T("ap-southeast-1")]))
      [] describe = "ClientError" -> Value(PyDict([error |-> T("ClientError")]))
      [] describe = "Exception" -> Raised("describe_table")

FormatFailedResponse(lesson_data) ==
    PyDict([success |-> PyFalse,
            error |-> PyStr(<<"Failed", " ", "to", " ", "format", " ", "lesson", " ", "response">>),
            data |-> lesson_data])

format_lesson_response(lesson_data, from_cache, describe) ==
    IF ~IsDict(lesson_data) \/ ~IsDict(Get(lesson_data.val, "metadata", PyDict(EmptyDict)))
    THEN FormatFailedResponse(lesson_data)
    ELSE LET md == Get(lesson_data.val, "metadata", PyDict(EmptyDict)).val
             metadata == PyDict([cached |-> PyBool(from_cache),
                                 timestamp |-> Get(md, "timestamp", PyNone),
                                 generatedWith |-> Get(md, "modelUsed", T("unknown")),
                                 priorityFocus |-> Get(md, "priorityFocus", PyList(<<>>)),
                                 phaseOptimized |-> Get(md, "phaseOptimized", PyNone),
                                 moscowEnabled |-> PyTrue])
             stats == get_cache_stats(describe)
         IN  IF from_cache /\ stats.raised THEN FormatFailedResponse(lesson_data)
             ELSE PyDict([success |-> PyTrue,
                          data |-> lesson_data,
                          metadata |-> IF from_cache
                                       THEN SetItem(metadata, "cacheStats", stats.value)
                                       ELSE metadata])

-----------------------------------------------------------------------------
(* integrationLayer.process_lesson_request: calls running side by side against
   the one table.  A call goes idle -> lookup -> done (served from the cache),
   or idle -> lookup -> generate -> done. *)

\* the clock readings, in hours: within and past the 24 hour window
RequestClock == {0, 12, 36}

\* targetLanguage as the language selector sends it
StructuredRequest ==
    PyDict([targetLanguage |->
                PyDict([language |-> T("Italian"),
                        reason |-> PyStr(<<"loves", " ", "opera">>)])])

\* the same request with the reason already under contextualUse
FlattenedRequest ==
    PyDict([targetLanguage |-> T("Italian"),
            contextualUse |-> PyDict([inspiration |-> PyStr(<<"loves", " ", "opera">>)])])

SampleLessonRequests == {StructuredRequest, FlattenedRequest}

\* a lesson as generate_lesson_with_ai is meant to return it
StoredLesson ==
    PyDict([lessonContent |-> CompleteLesson,
            metadata |-> PyDict([generated |-> PyTrue, timestamp |-> PyNone,
                                 modelUsed |-> T("amazon.nova-pro-v1:0")])])

\* a dict of four lists of str from a validated profile
ValidatedDict(validated) ==
    PriorityDict(validated.mustHave, validated.shouldHave,
                 validated.couldHave, validated.wontHave)

\* {**lesson_request, 'phasePriorities': ..., 'priorityTimeAllocation': ...}
enhanced_request(lesson_request, validated_priorities) ==
    LET allocation == calculate_priority_time_allocation(PyDict(validated_priorities))
    IN  SetItem(SetItem(lesson_request, "phasePriorities",
                        ValidatedDict(validated_priorities)),
                "priorityTimeAllocation",
                PyDict([k \in DOMAIN allocation |-> PyInt(allocation[k])]))

NoResult == [kind |-> "none", response |-> PyNone, error |-> ""]
ReturnedResponse(response) == [kind |-> "returned", response |-> response, error |-> ""]
RaisedError(message) == [kind |-> "raised", response |-> PyNone, error |-> message]

\* lines 19-20: the validated priorities of each sample request
RequestPriorities ==
    [r \in SampleLessonRequests |->
        validate_moscow_priorities(extract_moscow_priorities(r))]

\* line 24: the fingerprint of each sample request as received
RequestKey ==
    [r \in SampleLessonRequests |->
        generate_lesson_hash(ScenarioProfile, r, PyDict(RequestPriorities[r]))]

\* line 39: generate_lesson_with_ai for each sample request and each answer of
\* Bedrock, on the profile and the request as process_lesson_request has them
RequestGenerated ==
    [r \in SampleLessonRequests |->
        [o \in BedrockOutcomes |->
            generate_lesson_with_ai(ScenarioProfile,
                                    enhanced_request(r, RequestPriorities[r]), o)]]

\* mutant: a generation that raises is attempted a second time
ProcGenerate_Retrying(i, outcome, store_ok) ==
    /\ procs[i].pc = "generate"
    /\ LET generated == RequestGenerated[procs[i].lesson_request][outcome]
       IN  procs' = [procs EXCEPT ![i] =
                        [@ EXCEPT !.pc = IF procs[i].bedrock_calls = 0
                                         THEN "generate" ELSE "done",
                                  !.user_profile = generated.user_profile,
                                  !.lookup_failed = FALSE,
                                  !.bedrock_calls = @ + generated.bedrock_calls,
                                  !.result = IF procs[i].bedrock_calls = 0 THEN @
                                             ELSE RaisedError(generated.error)]]
    /\ UNCHANGED <<harness, store, now, sweep>>

RequestInit ==
    /\ call = [fn |-> "none"]
    /\ ret = NoRet
    /\ SystemIdle

\* lines 19-26: the priorities and the fingerprint of the request as received
ProcStart(i, lesson_request) ==
    /\ procs[i].pc = "idle"
    /\ LET user_profile == ScenarioProfile
           validated_priorities == RequestPriorities[lesson_request]
           lesson_hash == RequestKey[lesson_request]
       IN  procs' = [procs EXCEPT ![i] =
                        [pc |-> "lookup",
                         user_profile |-> user_profile,
                         lesson_request |-> lesson_request,
                         validated_priorities |-> validated_priorities,
                         lesson_hash |-> lesson_hash,
                         lookup_failed |-> FALSE,
                         bedrock_calls |-> 0,
                         puts |-> 0,
                         result |-> NoResult]]
    /\ UNCHANGED <<harness, store, now, sweep>>

\* mutant: a store failure during the lookup ends the call with the error
ProcCacheLookup_FailClosed(i, store_ok, describe) ==
    /\ procs[i].pc = "lookup"
    /\ LET cached_lesson == get_cached_lesson(store, procs[i].lesson_hash, now, store_ok)
       IN  procs' = [procs EXCEPT ![i] =
                        IF ~store_ok
                        THEN [@ EXCEPT !.pc = "done", !.lookup_failed = TRUE,
                                       !.result = RaisedError("ClientError")]
                        ELSE IF Truthy(cached_lesson)
                        THEN [@ EXCEPT !.pc = "done",
                                       !.result = ReturnedResponse(
                                           format_lesson_response(cached_lesson, TRUE,
                                                                  describe))]
                        ELSE [@ EXCEPT !.pc = "generate"]]
    /\ UNCHANGED <<harness, store, now, sweep>>

\* lines 29-32: get_cached_lesson, and the cached lesson returned when there is
\* one.  lookup_failed records, while the call is in progress, that get_item
\* raised (the error is logged).
ProcCacheLookup(i, store_ok, describe) ==
    /\ procs[i].pc = "lookup"
    /\ LET cached_lesson == get_cached_lesson(store, procs[i].lesson_hash, now, store_ok)
       IN  procs' = [procs EXCEPT ![i] =
                        IF Truthy(cached_lesson)
                        THEN [@ EXCEPT !.pc = "done",
                                       !.result = ReturnedResponse(
                                           format_lesson_response(cached_lesson, TRUE,
                                                                  describe))]
                        ELSE [@ EXCEPT !.pc = "generate", !.lookup_failed = ~store_ok]]
    /\ UNCHANGED <<harness, store, now, sweep>>

\* the caller's request after generate_lesson_with_ai: its contextualUse dict is
\* shared with enhanced_request, so a write to it shows in the request
request_after_generation(p, generated) ==
    IF generated.contextualUse_written
    THEN SetItem(p.lesson_request, "contextualUse",
                 SetItem(p.lesson_request.val["contextualUse"], "inspiration",
                         p.lesson_request.val["targetLanguage"].val["reason"]))
    ELSE p.lesson_request

\* lines 39-53: the call at its end, with the response it returns or the error
\* it raises
generation_done(p, generated, lesson_request) ==
    LET after_call == [p EXCEPT !.pc = "done",
                                !.lookup_failed = FALSE,
                                !.user_profile = generated.user_profile,
                                !.lesson_request = lesson_request,
                                !.bedrock_calls = @ + generated.bedrock_calls]
    IN  IF generated.raised
        THEN [after_call EXCEPT !.result = RaisedError(generated.error)]
        ELSE [after_call EXCEPT
                 !.puts = @ + 1,
                 !.result = ReturnedResponse(
                     format_lesson_response(generated.value, FALSE, "ok"))]

\* line 44: the table after cache_lesson, which a raising generation skips
table_after_generation(table, p, generated, lesson_request, utcnow, store_ok) ==
    IF generated.raised
    THEN table
    ELSE cache_lesson(table, p.lesson_hash, generated.value, generated.user_profile,
                      lesson_request, utcnow, store_ok).table

\* lines 35-49 for the call p, given what generate_lesson_with_ai did
GenerateStep(i, p, generated, store_ok) ==
    /\ procs' = [procs EXCEPT ![i] =
                    generation_done(p, generated, request_after_generation(p, generated))]
    /\ store' = table_after_generation(store, p, generated,
                                       request_after_generation(p, generated),
                                       now, store_ok)

\* lines 35-49: generate_lesson_with_ai, cache_lesson, format_lesson_response
ProcGenerate(i, outcome, store_ok) ==
    /\ procs[i].pc = "generate"
    /\ GenerateStep(i, procs[i], RequestGenerated[procs[i].lesson_request][outcome],
                    store_ok)
    /\ UNCHANGED <<harness, now, sweep>>

\* cache_lesson called for the fingerprint of a request, outside
\* process_lesson_request
LessonPut(lesson_request, store_ok) ==
    LET lesson_hash == RequestKey[lesson_request]
    IN  /\ store' = cache_lesson(store, lesson_hash, StoredLesson, ScenarioProfile,
                                 lesson_request, now, store_ok).table
        /\ UNCHANGED <<harness, now, sweep, procs>>

RequestTick(t) ==
    /\ t > now
    /\ now' = t
    /\ UNCHANGED <<harness, store, sweep, procs>>

Next ==
    \/ \E i \in ProcIds, r \in SampleLessonRequests : ProcStart(i, r)
    \/ \E i \in ProcIds, ok \in BOOLEAN, d \in DescribeOutcomes : ProcCacheLookup(i, ok, d)
    \/ \E i \in ProcIds, o \in BedrockOutcomes, ok \in BOOLEAN : ProcGenerate(i, o, ok)
    \/ \E r \in SampleLessonRequests, ok \in BOOLEAN : LessonPut(r, ok)
    \/ \E t \in RequestClock : RequestTick(t)

Spec == RequestInit /\ [][Next]_vars

\* a response with success = True, and its metadata.cached
IsSuccess(response) == IsDict(response) /\ Get(response.val, "success", PyFalse) = PyTrue
CachedFlag(response) ==
    Get(Get(response.val, "metadata", PyDict(EmptyDict)).val, "cached", PyNone)

\* C7: with no priorities in the request and a generation service that returns
\* a lesson, a process_lesson_request call that misses the cache returns a
\* success response with cached = False and leaves the lesson in the table under
\* its fingerprint; and a call that looks the fingerprint up while the table
\* holds an item created less than 24 hours before (get_item and describe_table
\* answering, or describe_table raising a ClientError) returns a success
\* response with cached = True, without a call of the generation service.
C7_MissThenHit ==
    [][\A i \in ProcIds :
          /\ \A ok \in BOOLEAN :
                ProcGenerate(i, "json_valid", ok) =>
                    /\ procs'[i].result.kind = "returned"
                    /\ IsSuccess(procs'[i].result.response)
                    /\ CachedFlag(procs'[i].result.response) = PyFalse
                    /\ ok => procs[i].lesson_hash \in DOMAIN store'
          /\ \A d \in {"ok", "ClientError"} :
                (/\ ProcCacheLookup(i, TRUE, d)
                 /\ procs[i].lesson_hash \in DOMAIN store
                 /\ now - store[procs[i].lesson_hash].createdAt < CacheHours) =>
                    /\ procs'[i].pc = "done"
                    /\ IsSuccess(procs'[i].result.response)
                    /\ CachedFlag(procs'[i].result.response) = PyTrue
                    /\ procs'[i].bedrock_calls = 0]_vars

\* C8: a call whose request carries targetLanguage = {language: L, reason: R}
\* has the fingerprint of the call whose request carries targetLanguage = L and
\* contextualUse.inspiration = R.
C8_StructuredEqualsFlattened ==
    \A i, j \in ProcIds :
        (/\ procs[i].pc # "idle" /\ procs[j].pc # "idle"
         /\ procs[i].lesson_request = StructuredRequest
         /\ procs[j].lesson_request = FlattenedRequest)
            => procs[i].lesson_hash = procs[j].lesson_hash

\* C9: when Bedrock answers a call that missed the cache with a
\* ThrottlingException, process_lesson_request raises the rate-limit error, no
\* put is made and the table is as before; and a call that ends with that
\* error is one that Bedrock answered with a ThrottlingException.
C9_RateLimitDistinguishable ==
    [][\A i \in ProcIds :
          /\ \A ok \in BOOLEAN :
                ProcGenerate(i, "ThrottlingException", ok) =>
                    /\ procs'[i].result = RaisedError(RateLimitMessage)
                    /\ procs'[i].puts = 0
                    /\ store' = store
          /\ \A o \in BedrockOutcomes \ {"ThrottlingException"}, ok \in BOOLEAN :
                (/\ procs[i].pc = "generate"
                 /\ procs'[i].pc = "done"
                 /\ procs'[i].result.error = RateLimitMessage)
                    => ~ProcGenerate(i, o, ok)]_vars

\* C9 witness: a call has ended with the rate-limit error, made no put, and the
\* table holds nothing under its fingerprint.
C9_Witness ==
    \E i \in ProcIds :
        /\ procs[i].pc = "done"
        /\ procs[i].result = RaisedError(RateLimitMessage)
        /\ procs[i].bedrock_calls = 1
        /\ procs[i].puts = 0
        /\ procs[i].lesson_hash \notin DOMAIN store

\* C10: when Bedrock returns content that validate_lesson_content rejects (no
\* grammar, one practice exercise), process_lesson_request still calls
\* cache_lesson and returns a success response that carries the content.
C10_ValidationAdvisory ==
    [][\A i \in ProcIds, ok \in BOOLEAN :
          (ProcGenerate(i, "json_incomplete", ok)
           /\ ~validate_lesson_content(IncompleteLesson)) =>
              /\ procs'[i].puts = 1
              /\ procs'[i].result.kind = "returned"
              /\ IsSuccess(procs'[i].result.response)
              /\ Get(Get(procs'[i].result.response.val, "data", PyDict(EmptyDict)).val,
                     "lessonContent", PyNone) = IncompleteLesson]_vars

\* C11: when get_item raises during the lookup of a process_lesson_request
\* call, get_cached_lesson returns None, as it does when the table holds no
\* item, and the call goes on to generation exactly as after a miss: it has no
\* result yet, and the table is as before.
C11_StoreFailureIsMiss ==
    [][\A i \in ProcIds, d \in DescribeOutcomes :
          ProcCacheLookup(i, FALSE, d) =>
              /\ get_cached_lesson(store, procs[i].lesson_hash, now, FALSE)
                     = get_cached_lesson(NoItems, procs[i].lesson_hash, now, TRUE)
              /\ procs'[i].pc = "generate"
              /\ procs'[i].result = NoResult
              /\ store' = store]_vars

\* C11 witness: a call whose lookup failed while the table holds a fresh item
\* under its fingerprint has gone on to generation.
C11_Witness ==
    \E i \in ProcIds :
        /\ procs[i].pc = "generate"
        /\ procs[i].lookup_failed
        /\ procs[i].lesson_hash \in DOMAIN store
        /\ ~Expired(store[procs[i].lesson_hash], now)

\* C12: when Bedrock returns a lesson and put_item raises, process_lesson_request
\* returns a success response with cached = False that carries the lesson, and
\* the table is as before the call.
C12_StoreFailureOnWrite ==
    [][\A i \in ProcIds :
          ProcGenerate(i, "json_valid", FALSE) =>
              /\ procs'[i].result.kind = "returned"
              /\ IsSuccess(procs'[i].result.response)
              /\ CachedFlag(procs'[i].result.response) = PyFalse
              /\ Get(Get(procs'[i].result.response.val, "data", PyDict(EmptyDict)).val,
                     "lessonContent", PyNone) = CompleteLesson
              /\ store' = store]_vars

\* C17: the profile a caller passed to process_lesson_request is, at every
\* point of the call and after it, equal to what the caller passed.
C17_ProfileNotMutated ==
    \A i \in ProcIds : procs[i].pc # "idle" => procs[i].user_profile = ScenarioProfile

\* C18: when two calls with the same fingerprint have both missed and one of
\* them generates while the other is generating or has finished (Bedrock
\* returning a lesson, put_item answering), that call returns a success
\* response, as the other one did if it has finished, and the table then holds
\* under the fingerprint the item this call has just put.
C18_LastWriteWins ==
    [][\A i, j \in ProcIds :
          (/\ i # j
           /\ procs[i].pc \in {"generate", "done"}
           /\ procs[j].pc = "generate"
           /\ procs[i].lesson_hash = procs[j].lesson_hash
           /\ procs[i].pc = "done" => procs[i].bedrock_calls = 1
           /\ ProcGenerate(j, "json_valid", TRUE)) =>
              /\ procs'[j].result.kind = "returned"
              /\ IsSuccess(procs'[j].result.response)
              /\ procs[i].pc = "done" =>
                    (procs[i].result.kind = "returned"
                     /\ IsSuccess(procs[i].result.response))
              /\ procs[j].lesson_hash \in DOMAIN store'
              /\ store'[procs[j].lesson_hash].createdAt = now
              /\ Get(store'[procs[j].lesson_hash].lessonContent.val, "lessonContent",
                     PyNone) = CompleteLesson]_vars

(* Progress of process_lesson_request.  The lookup is a get_item call that
   answers or raises, so a call at the lookup moves on.  The generation step
   waits for bedrock_runtime.converse: the client is built without a Config,
   call_bedrock_nova_pro and process_lesson_request take no timeout, and
   nothing in the call path abandons the wait, so no fairness is assumed for
   it. *)
SpecLive ==
    /\ RequestInit
    /\ [][Next]_vars
    /\ \A i \in ProcIds :
          WF_vars(\E ok \in BOOLEAN, d \in DescribeOutcomes : ProcCacheLookup(i, ok, d))

\* C19: every process_lesson_request call that has started eventually ends,
\* with a response or with a raised error.
C19_EventuallyTerminal ==
    \A i \in ProcIds : (procs[i].pc = "lookup") ~> (procs[i].pc = "done")

-----------------------------------------------------------------------------
(* coreStructure: validate_input and lambda_handler *)

Msg(text) == PyStr(<<text>>)

\* str(v) inside an f-string: the text of a str, the JSON text of a number
FormatValue(v) == IF IsStr(v) THEN v.val ELSE Json(v)

valid_learning_styles ==
    {T("visual"), T("auditory"), T("reading"), T("kinesthetic"), T("balanced"),
     T("visual-auditory"), T("visual-kinesthetic"), T("auditory-kinesthetic")}

valid_cefr_levels == {T("A1"), T("A2"), T("B1"), T("B2"), T("C1"), T("C2")}

valid_phases == {T("new_knowledge"), T("consolidate"), T("simulation")}

AttributeErrorMessage == "object has no attribute 'get'"

\* what validate_input returns or raises, and the profile dict afterwards
Validation(message, user_profile) ==
    [raised |-> FALSE, error |-> "", value |-> message, user_profile |-> user_profile]
ValidationRaised(message, user_profile) ==
    [raised |-> TRUE, error |-> message, value |-> PyNone, user_profile |-> user_profile]

\* lines 148-196: the checks of the lesson request and of placementTest
validate_lesson_request(user_profile, lesson_request) ==
    IF ~Truthy(lesson_request) THEN Validation(Msg("Missing lesson request"), user_profile)
    ELSE IF ~IsDict(lesson_request) THEN ValidationRaised(AttributeErrorMessage, user_profile)
    ELSE
    LET target_language == Get(lesson_request.val, "targetLanguage", PyNone)
        contextual_use == Get(lesson_request.val, "contextualUse", PyDict(EmptyDict))
        topic == Get(lesson_request.val, "topic", Msg("Basic Communication"))
        proficiency == Get(lesson_request.val, "proficiencyLevel", PyNone)
        placement_test == Get(user_profile.val, "placementTest", PyNone)
        cefr_level == Get(placement_test.val, "cefrLevel", PyNone)
        learning_phase == Get(lesson_request.val, "learningPhase", PyNone)
        language == Get(target_language.val, "language", PyNone)
    IN  IF ~Truthy(target_language)
        THEN Validation(Msg("Missing required lesson request field: targetLanguage"),
                        user_profile)
        ELSE IF IsDict(target_language) /\ ~Truthy(language)
        THEN Validation(Msg("Target language object missing 'language' field"), user_profile)
        ELSE IF IsDict(target_language) /\ (~IsStr(language) \/ Strip(language.val) = <<>>)
        THEN Validation(Msg("Target language must be a non-empty string"), user_profile)
        ELSE IF IsStr(target_language) /\ Strip(target_language.val) = <<>>
        THEN Validation(Msg("Target language must be a non-empty string"), user_profile)
        ELSE IF ~IsDict(target_language) /\ ~IsStr(target_language)
        THEN Validation(Msg("Target language must be string or object with 'language' field"),
                        user_profile)
        ELSE IF Truthy(contextual_use) /\ ~IsDict(contextual_use)
        THEN Validation(Msg("contextualUse must be an object"), user_profile)
        ELSE IF ~IsStr(topic)
        THEN Validation(Msg("topic must be a string"), user_profile)
        ELSE IF Truthy(proficiency) /\ proficiency \notin valid_cefr_levels
        THEN Validation(PyStr(<<"Invalid proficiency level: ">> \o FormatValue(proficiency)
                              \o <<". Must be one of ['A1', 'A2', 'B1', 'B2', 'C1', 'C2']">>),
                        user_profile)
        ELSE IF Truthy(placement_test) /\ ~IsDict(placement_test)
        THEN Validation(Msg("placementTest must be an object"), user_profile)
        ELSE IF Truthy(placement_test) /\ Truthy(cefr_level)
                /\ cefr_level \notin valid_cefr_levels
        THEN Validation(PyStr(<<"Invalid CEFR level in placement test: ">>
                              \o FormatValue(cefr_level)), user_profile)
        ELSE IF Truthy(learning_phase) /\ learning_phase \notin valid_phases
        THEN Validation(PyStr(<<"Invalid learning phase: ">> \o FormatValue(learning_phase)
                              \o <<". Must be one of ['new_knowledge', 'consolidate', 'simulation']">>),
                        user_profile)
        ELSE Validation(PyNone, user_profile)

\* validate_input: the error message or None; a str nativeLanguages is
\* replaced in the caller's dict by a one-item list before the later checks
validate_input(user_profile, lesson_request) ==
    IF ~Truthy(user_profile) THEN Validation(Msg("Missing user profile"), user_profile)
    ELSE IF ~IsDict(user_profile) THEN ValidationRaised(AttributeErrorMessage, user_profile)
    ELSE
    LET native_languages == Get(user_profile.val, "nativeLanguages", PyNone)
        converted == IF IsStr(native_languages) /\ Truthy(native_languages)
                         /\ Truthy(Get(user_profile.val, "nationality", PyNone))
                     THEN SetItem(user_profile, "nativeLanguages", PyList(<<native_languages>>))
                     ELSE user_profile
        additional_languages == Get(user_profile.val, "additionalLanguages", PyList(<<>>))
        learning_style == Get(user_profile.val, "learningStyle", PyNone)
    IN  IF ~Truthy(Get(user_profile.val, "nationality", PyNone))
        THEN Validation(Msg("Missing required user profile field: nationality"), user_profile)
        ELSE IF ~Truthy(native_languages)
        THEN Validation(Msg("Missing required user profile field: nativeLanguages"),
                        user_profile)
        ELSE IF ~IsStr(native_languages) /\ ~IsList(native_languages)
        THEN Validation(Msg("nativeLanguages must be a non-empty array"), user_profile)
        ELSE IF ~IsList(additional_languages)
        THEN Validation(Msg("additionalLanguages must be an array"), converted)
        ELSE IF ~Truthy(learning_style)
        THEN Validation(Msg("Missing required user profile field: learningStyle"), converted)
        ELSE IF learning_style \notin valid_learning_styles
        THEN Validation(PyStr(<<"Invalid learning style: ">> \o FormatValue(learning_style)),
                        converted)
        ELSE validate_lesson_request(converted, lesson_request)

\* a str that json.loads parses to the value v, and a str it rejects
JsonText(v) == [ty |-> "jsontext", val |-> v]
BadJson == PyStr(<<"{">>)

\* json.loads(text): the value, a JSONDecodeError, or a TypeError for None
json_loads(text) ==
    IF text.ty = "jsontext" THEN Value(text.val)
    ELSE IF IsStr(text) THEN Raised("JSONDecodeError")
    ELSE Raised("the JSON object must be str, bytes or bytearray")

get_cors_headers ==
    PyDict([AccessControlAllowOrigin |-> T("*"),
            AccessControlAllowMethods |-> T("GET, POST, OPTIONS"),
            AccessControlAllowHeaders |-> T("Content-Type, Authorization, X-Requested-With")])

\* error_response, success_response, processed_profile and processed_request
\* are names coreStructure.py neither defines nor imports: evaluating one of
\* them raises NameError
error_response(status_code, message) == Raised("name 'error_response' is not defined")
processed_profile == Raised("name 'processed_profile' is not defined")

\* lambda_handler: the response dict it returns or the exception it raises
lambda_handler(event) ==
    LET loaded == json_loads(Get(event.val, "body", JsonText(PyDict(EmptyDict))))
        body == loaded.value
        user_profile == Get(body.val, "userProfile", PyDict(EmptyDict))
        lesson_request == Get(body.val, "lessonRequest", PyDict(EmptyDict))
        validation == validate_input(user_profile, lesson_request)
        attempt ==
            IF Get(event.val, "httpMethod", PyNone) = T("OPTIONS")
            THEN Value(PyDict([statusCode |-> PyInt(200),
                               headers |-> get_cors_headers,
                               body |-> JsonText(PyDict([message |->
                                                            T("CORS preflight handled")]))]))
            ELSE IF loaded.raised /\ loaded.error = "JSONDecodeError"
            THEN error_response(400, Msg("Invalid JSON in request body"))
            ELSE IF loaded.raised THEN Raised(loaded.error)
            ELSE IF ~IsDict(body) THEN Raised(AttributeErrorMessage)
            ELSE IF validation.raised THEN Raised(validation.error)
            ELSE IF Truthy(validation.value) THEN error_response(400, validation.value)
            \* every route evaluates processed_profile before the call it is for
            ELSE processed_profile
    IN  IF attempt.raised
        THEN error_response(500, PyStr(<<"Internal server error: ", attempt.error>>))
        ELSE attempt

(* Inputs of the lambda_handler harness *)

HandlerProfile == ScenarioProfile

SampleHandlerProfiles ==
    {MISSING, PyDict(EmptyDict), T("profile"),
     DictOf([nativeLanguages |-> StrList(<<<<"English">>>>), learningStyle |-> T("balanced")]),
     SetItem(HandlerProfile, "nativeLanguages", PyList(<<>>)),
     SetItem(HandlerProfile, "nativeLanguages", PyNum),
     SetItem(HandlerProfile, "nativeLanguages", T("English")),
     SetItem(HandlerProfile, "additionalLanguages", T("French")),
     SetItem(HandlerProfile, "learningStyle", PyNone),
     SetItem(HandlerProfile, "learningStyle", T("tactile")),
     SetItem(HandlerProfile, "placementTest", PyNum),
     SetItem(HandlerProfile, "placementTest", PyDict([cefrLevel |-> T("Z9")])),
     SetItem(HandlerProfile, "placementTest", PyDict([cefrLevel |-> T("B1")])),
     HandlerProfile}

HandlerRequest == PyDict([targetLanguage |-> T("Italian")])

SampleHandlerRequests ==
    {MISSING, PyDict(EmptyDict), T("request"),
     PyDict([topic |-> T("Travel")]),
     SetItem(HandlerRequest, "targetLanguage", PyDict([reason |-> T("opera")])),
     SetItem(HandlerRequest, "targetLanguage", PyDict([language |-> PyNum])),
     SetItem(HandlerRequest, "targetLanguage", PyDict([language |-> PyStr(<<" ", " ">>)])),
     SetItem(HandlerRequest, "targetLanguage", PyStr(<<" ">>)),
     SetItem(HandlerRequest, "targetLanguage", PyNum),
     SetItem(HandlerRequest, "targetLanguage", PyDict([language |-> T("Italian")])),
     SetItem(HandlerRequest, "contextualUse", T("work")),
     SetItem(HandlerRequest, "topic", PyNum),
     SetItem(HandlerRequest, "proficiencyLevel", T("Z9")),
     SetItem(HandlerRequest, "proficiencyLevel", T("A2")),
     SetItem(HandlerRequest, "learningPhase", T("review")),
     HandlerRequest}

SampleBodies ==
    {MISSING, BadJson, PyNone, JsonText(PyList(<<>>))}
    \cup {JsonText(DictOf([userProfile |-> up, lessonRequest |-> lr])) :
            up \in SampleHandlerProfiles, lr \in SampleHandlerRequests}

SampleEvents ==
    {DictOf([httpMethod |-> T(method), path |-> T(path), body |-> body]) :
        method \in {"POST", "OPTIONS"},
        path \in {"/api/ai/generate-lesson", "/api/ai/generate-scenario"},
        body \in SampleBodies}

HandlerInit ==
    /\ call \in {[fn |-> "lambda_handler", args |-> <<event>>] : event \in SampleEvents}
    /\ ret = NoRet
    /\ SystemIdle

\* one invocation: the response returned, or the exception that leaves the
\* handler; the handler itself starts no process_lesson_request call
HandlerCall ==
    /\ call.fn = "lambda_handler"
    /\ ret = NoRet
    /\ LET outcome == lambda_handler(call.args[1])
       IN  ret' = IF outcome.raised
                  THEN [ty |-> "raise", val |-> outcome.error]
                  ELSE Returned(outcome.value)
    /\ UNCHANGED <<call, system>>

HandlerNext == HandlerCall

SpecHandler == HandlerInit /\ [][HandlerNext]_vars

\* the invocation is over, and its userProfile and lessonRequest
HandlerDone == call.fn = "lambda_handler" /\ ret # NoRet
EventBody == json_loads(Get(call.args[1].val, "body", JsonText(PyDict(EmptyDict))))
EventProfile == Get(EventBody.value.val, "userProfile", PyDict(EmptyDict))
EventRequest == Get(EventBody.value.val, "lessonRequest", PyDict(EmptyDict))

\* the request is not a preflight, its body is a JSON object, and
\* validate_input returns an error message for it
FailsValidation ==
    /\ Get(call.args[1].val, "httpMethod", PyNone) # T("OPTIONS")
    /\ ~EventBody.raised
    /\ IsDict(EventBody.value)
    /\ ~validate_input(EventProfile, EventRequest).raised
    /\ Truthy(validate_input(EventProfile, EventRequest).value)

\* C20: an invocation whose userProfile and lessonRequest fail validate_input
\* returns a response with statusCode 400, and no process_lesson_request call
\* was started and the table is untouched.
C20_InvalidInputGets400 ==
    (HandlerDone /\ FailsValidation) =>
        /\ ret.ty = "ret"
        /\ IsDict(ret.val)
        /\ Get(ret.val.val, "statusCode", PyNone) = PyInt(400)
        /\ store = NoItems
        /\ \A i \in ProcIds : procs[i] = ProcIdle

\* C21: a lookup that finds a fresh item under the call's fingerprint ends the
\* call with a response that has success = True and cached = True and carries
\* the lesson data the item was put with, whatever describe_table does; the
\* call has made no Bedrock call and no put, and the table is as before.
C21_HitIsTerminal ==
    [][\A i \in ProcIds, d \in DescribeOutcomes :
          (/\ ProcCacheLookup(i, TRUE, d)
           /\ procs[i].lesson_hash \in DOMAIN store
           /\ ~Expired(store[procs[i].lesson_hash], now)) =>
              /\ procs'[i].pc = "done"
              /\ procs'[i].result.kind = "returned"
              /\ IsSuccess(procs'[i].result.response)
              /\ CachedFlag(procs'[i].result.response) = PyTrue
              /\ Get(Get(procs'[i].result.response.val, "data", PyDict(EmptyDict)).val,
                     "lessonContent", PyNone) = store[procs[i].lesson_hash].lessonContent
              /\ procs'[i].bedrock_calls = 0
              /\ procs'[i].puts = 0
              /\ store' = store]_vars

-----------------------------------------------------------------------------
(* integrationLayer.retry_lesson_generation and create_fallback_lesson, and
   the priorities that build_lesson_prompt is given *)

\* build_lesson_prompt calls .get on placementTest, contextualUse and
\* phasePriorities: a value of another type raises AttributeError
build_lesson_prompt_raises(user_profile, lesson_request) ==
    \/ ~IsDict(Get(user_profile.val, "placementTest", PyDict(EmptyDict)))
    \/ ~IsDict(Get(lesson_request.val, "contextualUse", PyDict(EmptyDict)))
    \/ ~IsDict(Get(lesson_request.val, "phasePriorities", PyDict(EmptyDict)))

NoPrompt == [prompted |-> FALSE]

\* aiLessonGenerator.py lines 25-28 inside generate_lesson_with_ai: the prompt
\* values build_lesson_prompt computes from its arguments, when it is reached
\* and returns
PromptOf(pre) ==
    IF pre.raised \/ build_lesson_prompt_raises(pre.user_profile, pre.lesson_request)
    THEN NoPrompt
    ELSE [prompted |-> TRUE,
          prompt |-> build_lesson_prompt(pre.user_profile, pre.lesson_request)]

PromptBuilt(user_profile, lesson_request) ==
    PromptOf(preprocess_frontend_request(user_profile, lesson_request))

\* create_fallback_lesson: the hand-built lesson
create_fallback_lesson(user_profile, lesson_request) ==
    LET target_lang == FormatValue(Get(lesson_request.val, "targetLanguage",
                                       Msg("Unknown Language")))
        topic == FormatValue(Get(lesson_request.val, "topic", Msg("Basic Communication")))
    IN  PyDict([lesson |-> PyDict(
            [title |-> PyStr(<<"Basic ">> \o target_lang \o <<" Lesson: ">> \o topic),
             objective |-> PyStr(<<"Learn fundamental ">> \o target_lang
                                  \o <<" concepts related to ">> \o topic),
             themeContext |-> Msg("Basic structured learning approach"),
             coreContent |-> PyDict(
                [vocabulary |-> PyList(<<PyDict([word |-> T("hello"),
                                                translation |-> T("greeting"),
                                                context |-> Msg("Basic greeting phrase")])>>),
                 grammar |-> PyDict([rule |-> Msg("Basic sentence structure"),
                                     explanation |-> Msg("Simple subject-verb-object pattern"),
                                     examples |-> PyList(<<Msg("Hello, how are you?")>>)]),
                 practiceExercises |-> PyList(<<PyDict(
                     [type |-> T("basic"),
                      question |-> PyStr(<<"Practice basic ">> \o target_lang
                                         \o <<" greetings">>),
                      answer |-> Msg("User practice required")])>>)]),
             culturalNotes |-> PyStr(<<"Basic cultural context for ">> \o target_lang),
             nextSteps |-> Msg("Continue with vocabulary building"),
             fallback |-> PyTrue])])

\* the try block of retry_lesson_generation (lines 59-67): the second
\* generation attempt, on preprocess_frontend_request's result pre
retry_attempt(pre, user_profile, simplified_request, outcome) ==
    IF ~pre.raised /\ build_lesson_prompt_raises(pre.user_profile, pre.lesson_request)
    THEN Raised(AttributeErrorMessage)
    ELSE generate_lesson_with_ai(user_profile, simplified_request, outcome)

\* mutant: a failed second attempt is raised to the caller
retry_outcome_NoFallback(attempt, fallback, built) ==
    [raised |-> attempt.raised, error |-> attempt.error, value |-> attempt.value,
     built |-> built]

\* lines 67-72: the attempt's lesson, or the fallback lesson when it raised
retry_outcome(attempt, fallback, built) ==
    IF attempt.raised
    THEN [raised |-> FALSE, error |-> "", value |-> fallback, built |-> built]
    ELSE [raised |-> FALSE, error |-> "", value |-> attempt.value, built |-> built]

\* simplified_request = lesson_request.copy() with complexity = 'basic'
simplified_request(lesson_request) == SetItem(lesson_request, "complexity", T("basic"))

\* retry_lesson_generation: the lesson it returns, and the prompt values of
\* its generation attempt.  outcome is what Bedrock does.
retry_lesson_generation(user_profile, lesson_request, outcome) ==
    retry_outcome(
        retry_attempt(preprocess_frontend_request(user_profile,
                                                  simplified_request(lesson_request)),
                      user_profile, simplified_request(lesson_request), outcome),
        create_fallback_lesson(user_profile, lesson_request),
        PromptBuilt(user_profile, simplified_request(lesson_request)))

(* Inputs of the retry harness *)

SamplePhasePriorities ==
    SampleSources("a")
    \cup {PriorityDict(<<<<" ", "a">>>>, <<>>, <<>>, <<>>),
          PriorityDict(<<<<"a">>, <<"b">>>>, <<<<"c">>>>, <<>>, <<>>)}

SampleRetryProfiles ==
    {ScenarioProfile,
     SetItem(ScenarioProfile, "placementTest", PyDict([cefrLevel |-> T("B1")]))}

SampleRetryRequests ==
    {DictOf([targetLanguage |-> tl, topic |-> topic, phasePriorities |-> ph]) :
        tl \in {T("Italian"),
                PyDict([language |-> T("Italian"), reason |-> T("opera")]),
                PyDict([reason |-> T("opera")])},
        topic \in {MISSING, T("Travel")},
        ph \in SamplePhasePriorities}

RetryInit ==
    /\ call \in {[fn |-> fn, args |-> <<p, r, o>>] :
                    fn \in {"retry_lesson_generation", "process_lesson_request"},
                    p \in SampleRetryProfiles, r \in SampleRetryRequests,
                    o \in BedrockOutcomes}
    /\ ret = NoRet
    /\ SystemIdle

\* what a call leaves in ret: the value returned or the error raised, and the
\* prompt values
CallResult(out, built) ==
    [ty |-> IF out.raised THEN "raise" ELSE "ret",
     val |-> IF out.raised THEN Msg(out.error) ELSE out.value,
     built |-> built]

RetryResult(out) == CallResult(out, out.built)

\* one call of retry_lesson_generation
RetryCall ==
    /\ call.fn = "retry_lesson_generation"
    /\ ret = NoRet
    /\ ret' = RetryResult(retry_lesson_generation(call.args[1], call.args[2], call.args[3]))
    /\ UNCHANGED <<call, system>>

\* generate_lesson_with_ai on the request process_lesson_request builds
GenerationResult(user_profile, request, outcome) ==
    CallResult(generate_lesson_with_ai(user_profile, request, outcome),
               PromptBuilt(user_profile, request))

\* the generation step of process_lesson_request (integrationLayer.py lines
\* 19-20 and 38-39) for a call that misses the cache
GenerationCall ==
    /\ call.fn = "process_lesson_request"
    /\ ret = NoRet
    /\ ret' = GenerationResult(
                  call.args[1],
                  enhanced_request(call.args[2],
                                   validate_moscow_priorities(
                                       extract_moscow_priorities(call.args[2]))),
                  call.args[3])
    /\ UNCHANGED <<call, system>>

RetryNext == RetryCall \/ GenerationCall

SpecRetry == RetryInit /\ [][RetryNext]_vars

\* a list of at most 10 non-empty str without leading or trailing whitespace
IsNormalizedList(l) ==
    /\ IsList(l)
    /\ Len(l.val) <= PriorityCap
    /\ \A n \in DOMAIN l.val :
          IsStr(l.val[n]) /\ l.val[n].val # <<>> /\ Strip(l.val[n].val) = l.val[n].val

\* the four lists of a prompt
PromptLists(prompt) ==
    {prompt.must_have_priorities, prompt.should_have_priorities,
     prompt.could_have_priorities, prompt.wont_have_priorities}

\* C22: whenever build_lesson_prompt has built a prompt, in the generation
\* step of process_lesson_request or in retry_lesson_generation, the four
\* priority lists it read are normalized and not all empty.
C22_PromptPrioritiesNormalized ==
    (call.fn \in {"retry_lesson_generation", "process_lesson_request"}
     /\ ret # NoRet /\ ret.built.prompted) =>
        /\ \A l \in PromptLists(ret.built.prompt) : IsNormalizedList(l)
        /\ \E l \in PromptLists(ret.built.prompt) : l.val # <<>>

\* C27: retry_lesson_generation returns and does not raise; when what it
\* returns is not the lesson of its generation attempt, it is the lesson of
\* create_fallback_lesson, with fallback = True and the request's topic in the
\* title.
C27_RetryNeverFails ==
    (call.fn = "retry_lesson_generation" /\ ret # NoRet) =>
        /\ ret.ty = "ret"
        /\ IsDict(ret.val)
        /\ "lesson" \in DOMAIN ret.val.val
        /\ LET lesson == ret.val.val["lesson"]
               topic == FormatValue(Get(call.args[2].val, "topic",
                                        Msg("Basic Communication")))
           IN  \/ ret.val = CompleteLesson
               \/ /\ Get(lesson.val, "fallback", PyNone) = PyTrue
                  /\ SubSeq(lesson.val["title"].val,
                            Len(lesson.val["title"].val) - Len(topic) + 1,
                            Len(lesson.val["title"].val)) = topic

\* C27 witness: Bedrock answered the attempt with a complete lesson, and the
\* call returned the fallback lesson.
C27_Witness ==
    /\ call.fn = "retry_lesson_generation"
    /\ call.args[3] = "json_valid"
    /\ ret # NoRet
    /\ ret.ty = "ret"
    /\ Get(ret.val.val["lesson"].val, "fallback", PyNone) = PyTrue

\* C23: a process_lesson_request call leaves its generation step in one step,
\* to its end; when Bedrock fails (throttling, validation, another ClientError,
\* another exception) the call ends with the error raised; a call that has
\* ended stays as it ended; and no call has called Bedrock more than once.
C23_NoAutomaticRetry ==
    [][\A i \in ProcIds :
          /\ (procs[i].pc = "generate" /\ procs'[i] # procs[i]) =>
                 /\ procs'[i].pc = "done"
                 /\ procs'[i].bedrock_calls <= 1
          /\ \A o \in {"ThrottlingException", "ValidationException", "ClientError",
                       "Exception"} :
                 ProcGenerate(i, o, TRUE) =>
                     /\ procs'[i].pc = "done"
                     /\ procs'[i].result.kind = "raised"
                     /\ procs'[i].bedrock_calls = 1
          /\ procs[i].pc = "done" => procs'[i] = procs[i]]_vars

\* C23 witness: a call has ended with the invalid-request error after one
\* Bedrock call.
C23_Witness ==
    \E i \in ProcIds :
        /\ procs[i].pc = "done"
        /\ procs[i].result = RaisedError(InvalidRequestMessage)
        /\ procs[i].bedrock_calls = 1

\* C24: a cache_lesson(k, payload) call that succeeds leaves the table with the
\* item (payload, createdAt = now, ttl = now + 7 days) under k, in the place of
\* any item that was there, fresh or expired, and with every other item as it
\* was; a get_cached_lesson(k) made on that table at any time up to 24 hours
\* later returns the new payload.
C24_PutReplaces ==
    [][\A r \in SampleCacheRequests, d \in SampleLessonData :
          LET k == CacheKey[r]
          IN  CachePut(r, d, TRUE) =>
                  /\ ret'.val = PyTrue
                  /\ DOMAIN store' = DOMAIN store \cup {k}
                  /\ \A other \in DOMAIN store \ {k} : store'[other] = store[other]
                  /\ store'[k].lessonContent = d
                  /\ store'[k].createdAt = now
                  /\ store'[k].ttl = now + 7 * 24
                  /\ \A t \in ClockReadings :
                        (now <= t /\ t <= now + 24) =>
                            LET got == get_cached_lesson(store', k, t, TRUE)
                            IN  /\ got.ty = "dict"
                                /\ got.val.lessonContent = d]_vars

\* C24 witness: a get has returned the payload of an item that was put under a
\* key after the running sweep had scanned the item under that key as expired
\* (and before any item could reach its ttl), at a clock reading later than the
\* put.
C24_Witness ==
    /\ call.fn = "get_cached_lesson" /\ HasReturned /\ call.store_ok
    /\ ret.val.ty = "dict"
    /\ sweep.pc = "delete"
    /\ call.args[1] \in sweep.pending
    /\ call.args[1] \in DOMAIN store
    /\ ret.val.val.lessonContent = store[call.args[1]].lessonContent
    /\ now < TtlHours
    /\ now > store[call.args[1]].createdAt

\* a non-empty string with no space at either end
IsTrimmed(s) == s # <<>> /\ Head(s) # " " /\ s[Len(s)] # " "

\* the entries of the list that are strings with something other than spaces
Survivors(l) ==
    SelectSeq(l, LAMBDA x : IsStr(x) /\ \E i \in DOMAIN x.val : x.val[i] # " ")

\* the first 10 surviving entries of a category of the argument, trimmed, in
\* their order (none when the argument has no list under the category)
FirstSurvivors(priorities, category) ==
    IF IsDict(priorities) /\ category \in DOMAIN priorities.val
           /\ IsList(priorities.val[category])
    THEN LET surviving == Survivors(priorities.val[category].val)
         IN  [i \in 1..Min(10, Len(surviving)) |-> Strip(surviving[i].val)]
    ELSE <<>>

\* each list of the result holds only trimmed non-empty strings, 10 at most
ResultListsClean ==
    \A c \in DOMAIN ret.val :
        /\ Len(ret.val[c]) <= 10
        /\ \A i \in DOMAIN ret.val[c] : IsTrimmed(ret.val[c][i])

\* C25 as stated: each list of the result of validate_moscow_priorities holds
\* only trimmed non-empty strings, 10 at most, and is the first 10 surviving
\* entries of the argument's list in their order.
C25_FirstTenSurvivors ==
    (call.fn = "validate_moscow_priorities" /\ HasReturned) =>
        /\ ResultListsClean
        /\ \A c \in DOMAIN ret.val : ret.val[c] = FirstSurvivors(call.args[1], c)

\* C25 amended: each list of the result of validate_moscow_priorities holds
\* only trimmed non-empty strings, 10 at most; when the argument is a dict and
\* an entry of one of its four lists survives, each list of the result is the
\* first 10 surviving entries of the argument's list in their order; otherwise
\* the lists are the defaults.
C25_FirstTenSurvivorsOrDefaults ==
    (call.fn = "validate_moscow_priorities" /\ HasReturned) =>
        /\ ResultListsClean
        /\ DOMAIN ret.val = {"mustHave", "shouldHave", "couldHave", "wontHave"}
        /\ IF \E c \in DOMAIN ret.val : FirstSurvivors(call.args[1], c) # <<>>
           THEN \A c \in DOMAIN ret.val : ret.val[c] = FirstSurvivors(call.args[1], c)
           ELSE ret.val \in {DefaultPriorities(EmptyPriorities), ValidateErrorPriorities}

\* C25 witness: a list with more than 10 surviving entries among entries that
\* do not survive has been cut to 10, next to a list that is not cut.
C25_Witness ==
    /\ call.fn = "validate_moscow_priorities" /\ HasReturned
    /\ IsDict(call.args[1])
    /\ "mustHave" \in DOMAIN call.args[1].val
    /\ IsList(call.args[1].val["mustHave"])
    /\ Len(Survivors(call.args[1].val["mustHave"].val)) > 10
    /\ Len(ret.val.mustHave) = 10
    /\ ret.val.mustHave[2] = <<"a">>
    /\ Len(ret.val.shouldHave) = 1

\* a source that is read and yields nothing: falsy, or a dict whose mustHave,
\* shouldHave and couldHave are all empty or absent
PassedOver(source) ==
    \/ source.ty = "missing"
    \/ source.ty # "missing" /\ ~Truthy(source)
    \/ IsDict(source) /\ ~NonTrivial(source)

\* a truthy source that is not a dict: .get raises in the try block
BadSource(source) == source.ty # "missing" /\ Truthy(source) /\ ~IsDict(source)

\* the contextual-use step is reached
DescriptorReached == PassedOver(PhaseSource) /\ PassedOver(UserSource)

\* contextualUse asks for the mapping
DescriptorScaled ==
    /\ IsDict(Descriptor)
    /\ Truthy(Get(Descriptor.val, "priorityScale", PyNone))

\* no source yields priorities and nothing raises
NoSourceYields == DescriptorReached /\ PassedOver(Descriptor) /\ ~DescriptorScaled

\* a source field that is read is not a dict
SourceFieldError ==
    \/ BadSource(PhaseSource)
    \/ PassedOver(PhaseSource) /\ BadSource(UserSource)
    \/ DescriptorReached /\ BadSource(Descriptor)

\* the mapping is asked for a contextual-use type that is not a string
TypeError ==
    /\ DescriptorReached /\ DescriptorScaled
    /\ ~IsStr(Get(Descriptor.val, "type", PyStr(<<>>)))

\* C26 as stated: extract_moscow_priorities returns for every request; it
\* returns four empty lists when no source yields priorities, and also when a
\* source field that is read is not a dict or the contextual-use type is not a
\* string.
C26_ErrorsGiveEmptyLists ==
    /\ ret.ty # "raise"
    /\ ExtractReturned =>
          ((NoSourceYields \/ SourceFieldError \/ TypeError) => ret.val = NoPriorities)

\* C26 amended: extract_moscow_priorities returns for every request; it returns
\* four empty lists when no source yields priorities and when a source field
\* that is read is not a dict; when the mapping is asked for a contextual-use
\* type that is not a string, it returns mustHave ['Core vocabulary'],
\* shouldHave ['Basic grammar'] and two empty lists.
C26_ErrorsGiveEmptyListsOrConvertDefault ==
    /\ ret.ty # "raise"
    /\ ExtractReturned =>
          /\ (NoSourceYields \/ SourceFieldError) => ret.val = NoPriorities
          /\ TypeError =>
                ret.val = PriorityDict(<<<<"Core", " ", "vocabulary">>>>,
                                       <<<<"Basic", " ", "grammar">>>>, <<>>, <<>>)

\* C26 witness: phasePriorities has only wontHave filled, userPriorities is a
\* list, and four empty lists were returned.
C26_Witness ==
    /\ ExtractReturned
    /\ PhaseSource = PriorityDict(<<>>, <<>>, <<>>, <<<<"a">>>>)
    /\ UserSource = PyList(<<T("b")>>)
    /\ ret.val = NoPriorities

\* C28: every item that a sweep deletes is expired at the moment of its
\* deletion; an item put under a scanned key between the sweep's scan and its
\* delete is fresh and stays in the table.
C28_SweepSparesFresh ==
    [][\A k \in DOMAIN store :
          SweepDelete(k) => Expired(store[k], now)]_vars

-----------------------------------------------------------------------------
(* The fingerprint of a request and the proficiency its prompt is built with:
   process_lesson_request on two (profile, request) pairs, the first as the
   call that generated and cached a lesson, the second as a later call that
   looks its fingerprint up. *)

\* integrationLayer.py lines 19-24: the fingerprint of a call
lesson_hash_of(user_profile, lesson_request) ==
    generate_lesson_hash(
        user_profile, lesson_request,
        PyDict(validate_moscow_priorities(extract_moscow_priorities(lesson_request))))

\* lines 19-20 and 38-39: the prompt values of the call's generation
prompt_of(user_profile, lesson_request) ==
    PromptBuilt(
        user_profile,
        enhanced_request(lesson_request,
                         validate_moscow_priorities(extract_moscow_priorities(lesson_request))))

SamplePlacementTests ==
    {MISSING, PyDict(EmptyDict), PyDict([cefrLevel |-> T("A1")]),
     PyDict([cefrLevel |-> T("B2")])}

SampleFingerprintProfiles ==
    {DictOf([nativeLanguages |-> StrList(<<<<"English">>>>),
             nationality |-> n,
             learningStyle |-> T("balanced"),
             placementTest |-> pt]) :
        n \in {T("US"), T("MY")}, pt \in SamplePlacementTests}

SampleFingerprintRequests ==
    {DictOf([targetLanguage |-> T("Italian"), topic |-> tp, proficiencyLevel |-> pl]) :
        tp \in {MISSING, T("Travel")}, pl \in {MISSING, T("A1"), T("B2")}}

FingerprintInit ==
    /\ call \in {[fn |-> "process_lesson_request", args |-> <<p, r>>, alt |-> <<q, s>>] :
                    p \in SampleFingerprintProfiles, r \in SampleFingerprintRequests,
                    q \in SampleFingerprintProfiles, s \in SampleFingerprintRequests}
    /\ ret = NoRet
    /\ SystemIdle

\* both calls up to the prompt: their fingerprints and their prompt values
FingerprintCall ==
    /\ call.fn = "process_lesson_request"
    /\ ret = NoRet
    /\ ret' = [ty |-> "ret",
               val |-> <<lesson_hash_of(call.args[1], call.args[2]),
                         lesson_hash_of(call.alt[1], call.alt[2])>>,
               built |-> <<prompt_of(call.args[1], call.args[2]),
                           prompt_of(call.alt[1], call.alt[2])>>]
    /\ UNCHANGED <<call, system>>

FingerprintNext == FingerprintCall

SpecFingerprint == FingerprintInit /\ [][FingerprintNext]_vars

\* C29: two process_lesson_request calls whose prompts are built with
\* different proficiency levels (the placementTest cefrLevel of the profile,
\* A1 when absent) never have the same fingerprint, so the lesson cached by
\* one is never served to the other.
C29_ProficiencyInFingerprint ==
    (/\ call.fn = "process_lesson_request" /\ HasReturned
     /\ ret.built[1].prompted /\ ret.built[2].prompted
     /\ ret.built[1].prompt.proficiency # ret.built[2].prompt.proficiency)
        => ret.val[1] # ret.val[2]

\* the lesson content carried in the data of a response
ResponseContent(response) ==
    Get(Get(response.val, "data", PyDict(EmptyDict)).val, "lessonContent", PyNone)

\* C30: when a process_lesson_request call is served from the cache (the
\* statistics call answering), its response has success=true and the lesson
\* content in its data is, at the same place, the lesson content in the data of
\* the response that the call which cached the payload gives for it
\* (format_lesson_response of the payload with from_cache=False), which has
\* success=true as well.
C30_UniformEnvelope ==
    [][\A i \in ProcIds :
          (/\ ProcCacheLookup(i, TRUE, "ok")
           /\ procs[i].lesson_hash \in DOMAIN store
           /\ ~Expired(store[procs[i].lesson_hash], now)) =>
              LET miss == format_lesson_response(store[procs[i].lesson_hash].lessonContent,
                                                 FALSE, "ok")
              IN  /\ IsSuccess(miss)
                  /\ procs'[i].result.kind = "returned"
                  /\ IsSuccess(procs'[i].result.response)
                  /\ ResponseContent(procs'[i].result.response) = ResponseContent(miss)]_vars

=============================================================================
